---- MODULE Spec2Model ----
(***************************************************************************)
(* Verification model of roll-bot's per-tenant storage and command         *)
(* dispatch.                                                               *)
(*                                                                         *)
(*   Spec      the SQL-backed storage actor (ClientStorage::run), the      *)
(*             persistence worker (db_worker) and client tasks that call   *)
(*             StorageHandle methods directly.                             *)
(*   SpecFair  Spec with fewer ops, the actor and the worker scheduled     *)
(*             fairly.                                                     *)
(*   SpecEval  the same actor and worker, driven by tasks that run         *)
(*             ClientUtils::eval (parse, permission check, storage op).    *)
(*   SpecFile  the file-backed storage actor of bot-utils/src/storage.rs.  *)
(*   SpecRunCmd  run_cmd alone, applied to the cached entry of a tenant    *)
(*             whose row is drawn from a set of stored rows.               *)
(*   SpecParse  parse and the storage op of eval, one message at a time,   *)
(*             on the cached entry of a tenant with a drawn row.           *)
(*   SpecRoll  one job of RollExecutor::roll: the evaluator of dice-roll    *)
(*             and the timer that sets the job's timeout flag.             *)
(*   SpecExec  the RollExecutor: the RNG provider, the reseeding ticker,    *)
(*             the calls of roll with their pool jobs and timer tasks.     *)
(*   SpecArith one Calculation or one DiceThrow term of dice-roll, given   *)
(*             in Init, evaluated with checked and unchecked arithmetic.   *)
(*   SpecText  one written expression, given in Init: parse_labeled, the   *)
(*             evaluation of its term, Display and the parsers again.      *)
(*   SpecDraws one expression, given in Init with a seed, a build and the  *)
(*             call from which timeout_f gives true: Expression::evaluate, *)
(*             and the same evaluation once more.                          *)
(*   SpecShutdown  Spec, with the drop of the last StorageHandle and the   *)
(*             exit paths of the actor and of the worker.                  *)
(***************************************************************************)
EXTENDS Integers, Sequences, FiniteSets, TLC

(* ------------------------------ bounds -------------------------------- *)
NumIds == 2
NumClients == 2
MaxOps == 3
MaxEvals == 3
MaxRunCmds == 2
MaxCandidates == 3
MaxParses == 1
BigThrows == 300
BigCount == 300
NumCalls == 2
MaxTime == 4
Period == 1
JobTimeout == 2
PoolSize == 1
IntBits == 16
MaxThrows == 3
MaxOperands == 4
NumSeeds == 12
MaxTrip == 3
CacheSize == 1
DbQueueSize == 2
InboxSize == 2

Ids == 1..NumIds
Clients == 1..NumClients

(* ------------------------------ values -------------------------------- *)
DefaultCommandPrefix == "rrb!"
CommandPrefixes == {DefaultCommandPrefix, "!!"}
RollPrefixes == {"a", "b", "c"}
AliasNames == {"x", "y"}
Exprs == {"e1", "e2"}
NoExpr == "none"

Fields == {"command_prefix", "roll_prefix", "aliases", "roll_info"}

\* HashMap<String, Arc<VersionedRollExpr>>: a name is a key iff it is not NoExpr.
EmptyAliases == [n \in AliasNames |-> NoExpr]

\* serde_json text of a Vec<String>; ok = FALSE is text that does not parse.
ListToJson(l) == [ok |-> TRUE, arr |-> l]
GarbageListText == [ok |-> FALSE, arr |-> <<>>]

\* serde_json text of the alias map: a JSON object, i.e. a set of members.
MapToJson(m) == [ok |-> TRUE, obj |-> {<<n, m[n]>> : n \in {k \in AliasNames : m[k] # NoExpr}}]
GarbageMapText == [ok |-> FALSE, obj |-> {}]
MapFromJson(t) ==
    [n \in AliasNames |->
        IF \E p \in t.obj : p[1] = n
        THEN (CHOOSE p \in t.obj : p[1] = n)[2]
        ELSE NoExpr]

\* Mutant of ClientConfigNew: the inserted row has extra roll info switched on.
ClientConfigNewVerbose ==
    [command_prefix |-> DefaultCommandPrefix,
     roll_prefix |-> ListToJson(<<>>),
     aliases |-> MapToJson(EmptyAliases),
     roll_info |-> TRUE]

\* cc::ClientConfig::new : the row inserted for an id that has none.
ClientConfigNew ==
    [command_prefix |-> DefaultCommandPrefix,
     roll_prefix |-> ListToJson(<<>>),
     aliases |-> MapToJson(EmptyAliases),
     roll_info |-> FALSE]

NoRow == [present |-> FALSE, row |-> ClientConfigNew]
Row(r) == [present |-> TRUE, row |-> r]

\* ClientInformation::new that leaves the dirty flag of an unparsable column
\* false.
ClientInformationNewUnflagged(source) ==
    [command_prefix |-> source.command_prefix,
     roll_info |-> source.roll_info,
     roll_prefix |-> IF source.roll_prefix.ok THEN source.roll_prefix.arr ELSE <<>>,
     aliases |-> IF source.aliases.ok THEN MapFromJson(source.aliases) ELSE EmptyAliases,
     command_prefix_changed |-> FALSE,
     roll_prefix_changed |-> FALSE,
     aliases_changed |-> FALSE,
     roll_info_changed |-> FALSE]

\* ClientInformation::new that does not take roll_info from the row.
ClientInformationNewForgetsRollInfo(source) ==
    [command_prefix |-> source.command_prefix,
     roll_info |-> FALSE,
     roll_prefix |-> IF source.roll_prefix.ok THEN source.roll_prefix.arr ELSE <<>>,
     aliases |-> IF source.aliases.ok THEN MapFromJson(source.aliases) ELSE EmptyAliases,
     command_prefix_changed |-> FALSE,
     roll_prefix_changed |-> ~source.roll_prefix.ok,
     aliases_changed |-> ~source.aliases.ok,
     roll_info_changed |-> FALSE]

\* ClientInformation::new : parse the two JSON columns, flag a field whose
\* text does not parse.
ClientInformationNew(source) ==
    [command_prefix |-> source.command_prefix,
     roll_info |-> source.roll_info,
     roll_prefix |-> IF source.roll_prefix.ok THEN source.roll_prefix.arr ELSE <<>>,
     aliases |-> IF source.aliases.ok THEN MapFromJson(source.aliases) ELSE EmptyAliases,
     command_prefix_changed |-> FALSE,
     roll_prefix_changed |-> ~source.roll_prefix.ok,
     aliases_changed |-> ~source.aliases.ok,
     roll_info_changed |-> FALSE]

(* ------------------------------- ops ---------------------------------- *)
\* StorageOps: s = string argument, e = expression, b = bool, c = candidates.
Op(t, s, e, b, c) == [type |-> t, s |-> s, e |-> e, b |-> b, c |-> c]
ReadOpTypes == {"GetCommandPrefix", "GetRollPrefixes", "GetAllAlias", "GetAlias",
                "GetRollInfo", "Get"}
MutOpTypes == {"SetCommandPrefix", "AddRollPrefix", "RemoveRollPrefix", "AddAlias",
               "RemoveAlias", "SetRollInfo"}

\* Replies: one record shape for every oneshot payload.
NoReply == [t |-> "none", s |-> "", l |-> <<>>, m |-> EmptyAliases, b |-> FALSE, x |-> <<>>]
ReplyStr(s) == [NoReply EXCEPT !.t = "str", !.s = s]
ReplyUnit == [NoReply EXCEPT !.t = "unit"]
ReplyList(l) == [NoReply EXCEPT !.t = "list", !.l = l]
ReplyOk == [NoReply EXCEPT !.t = "Ok"]
ReplyErr == [NoReply EXCEPT !.t = "Err"]
ReplyMap(m) == [NoReply EXCEPT !.t = "map", !.m = m]
ReplyOpt(e) == [NoReply EXCEPT !.t = "opt", !.s = e]
ReplyBool(b) == [NoReply EXCEPT !.t = "bool", !.b = b]
ReplyBundle(p, l, x, b) == [NoReply EXCEPT !.t = "bundle", !.s = p, !.l = l, !.x = x, !.b = b]

\* Vec::swap_remove in place of Vec::remove.
SwapRemove(l, i) ==
    [j \in 1..(Len(l) - 1) |-> IF j = i THEN l[Len(l)] ELSE l[j]]

Contains(l, v) == \E i \in 1..Len(l) : l[i] = v
Position(l, v) == CHOOSE i \in 1..Len(l) : l[i] = v /\ \A j \in 1..(i - 1) : l[j] # v
RemoveAt(l, i) == SubSeq(l, 1, i - 1) \o SubSeq(l, i + 1, Len(l))

\* A lookup that answers each bound name once.
RECURSIVE FilterMapAliasesOnce(_, _)
FilterMapAliasesOnce(a, names) ==
    IF names = <<>> THEN <<>>
    ELSE (IF Head(names) \in DOMAIN a /\ a[Head(names)] # NoExpr
             /\ ~\E i \in 1..Len(Tail(names)) : Tail(names)[i] = Head(names)
          THEN <<a[Head(names)]>> ELSE <<>>)
         \o FilterMapAliasesOnce(a, Tail(names))

\* filter_map over the candidate names, in order.
RECURSIVE FilterMapAliases(_, _)
FilterMapAliases(a, names) ==
    IF names = <<>> THEN <<>>
    ELSE (IF Head(names) \in DOMAIN a /\ a[Head(names)] # NoExpr
          THEN <<a[Head(names)]>> ELSE <<>>)
         \o FilterMapAliases(a, Tail(names))

\* run_cmd : the new entry, the reply sent on the op's channel, and the
\* returned bool (whether the caller writes the entry back).
RunCmdResult(client, reply, wb) == [client |-> client, reply |-> reply, wb |-> wb]

RunCmd(client, op) ==
    CASE op.type = "GetCommandPrefix" ->
            RunCmdResult(client, ReplyStr(client.command_prefix), FALSE)
      [] op.type = "SetCommandPrefix" ->
            RunCmdResult([client EXCEPT !.command_prefix_changed = TRUE,
                                        !.command_prefix = op.s],
                         ReplyUnit, TRUE)
      [] op.type = "GetRollPrefixes" ->
            RunCmdResult(client, ReplyList(client.roll_prefix), FALSE)
      [] op.type = "AddRollPrefix" ->
            IF Contains(client.roll_prefix, op.s)
            THEN RunCmdResult(client, ReplyErr, TRUE)
            ELSE RunCmdResult([client EXCEPT !.roll_prefix_changed = TRUE,
                                             !.roll_prefix = Append(@, op.s)],
                              ReplyOk, TRUE)
      [] op.type = "RemoveRollPrefix" ->
            IF Contains(client.roll_prefix, op.s)
            THEN RunCmdResult([client EXCEPT !.roll_prefix_changed = TRUE,
                                             !.roll_prefix =
                                                 RemoveAt(@, Position(@, op.s))],
                              ReplyOk, TRUE)
            ELSE RunCmdResult(client, ReplyErr, TRUE)
      [] op.type = "GetAllAlias" ->
            RunCmdResult(client, ReplyMap(client.aliases), FALSE)
      [] op.type = "GetAlias" ->
            RunCmdResult(client, ReplyOpt(client.aliases[op.s]), FALSE)
      [] op.type = "AddAlias" ->
            RunCmdResult([client EXCEPT !.aliases_changed = TRUE,
                                        !.aliases[op.s] = op.e],
                         IF client.aliases[op.s] = op.e THEN ReplyErr ELSE ReplyOk,
                         TRUE)
      [] op.type = "RemoveAlias" ->
            RunCmdResult([client EXCEPT !.aliases_changed = TRUE,
                                        !.aliases[op.s] = NoExpr],
                         IF client.aliases[op.s] # NoExpr THEN ReplyOk ELSE ReplyErr,
                         TRUE)
      [] op.type = "Get" ->
            RunCmdResult(client,
                         ReplyBundle(client.command_prefix, client.roll_prefix,
                                     FilterMapAliases(client.aliases, op.c),
                                     client.roll_info),
                         FALSE)
      [] op.type = "GetRollInfo" ->
            RunCmdResult(client, ReplyBool(client.roll_info), FALSE)
      [] op.type = "SetRollInfo" ->
            RunCmdResult([client EXCEPT !.roll_info_changed = TRUE, !.roll_info = op.b],
                         ReplyUnit, TRUE)

(* ------------------------- persistence closures ----------------------- *)
\* cc::ClientConfigChangeset : Option per column.
NoChange ==
    [command_prefix |-> [some |-> FALSE, v |-> DefaultCommandPrefix],
     aliases |-> [some |-> FALSE, v |-> MapToJson(EmptyAliases)],
     roll_prefix |-> [some |-> FALSE, v |-> ListToJson(<<>>)],
     roll_info |-> [some |-> FALSE, v |-> FALSE]]

ChangeFields(change) == {f \in Fields : change[f].some}

GetClosure(id) == [kind |-> "get", id |-> id, change |-> NoChange]
\* A changeset closure whose filter names the first tenant, whatever the id.
SetClosureFirstTenant(id, change) == [kind |-> "set", id |-> 1, change |-> change]
SetClosure(id, change) == [kind |-> "set", id |-> id, change |-> change]

\* Mutant of GlobalSet: the roll_prefix flag is cleared but the column is left
\* out of the changeset.
GlobalSetForgetsRollPrefix(id, config) ==
    [config |-> [config EXCEPT !.command_prefix_changed = FALSE,
                               !.aliases_changed = FALSE,
                               !.roll_prefix_changed = FALSE,
                               !.roll_info_changed = FALSE],
     closure |-> SetClosure(id,
        [command_prefix |-> IF config.command_prefix_changed
                            THEN [some |-> TRUE, v |-> config.command_prefix]
                            ELSE NoChange.command_prefix,
         aliases |-> IF config.aliases_changed
                     THEN [some |-> TRUE, v |-> MapToJson(config.aliases)]
                     ELSE NoChange.aliases,
         roll_prefix |-> NoChange.roll_prefix,
         roll_info |-> IF config.roll_info_changed
                       THEN [some |-> TRUE, v |-> config.roll_info]
                       ELSE NoChange.roll_info])]

\* GlobalStorage::set up to the send: the changeset of the flagged fields and
\* the entry with those flags cleared.
GlobalSet(id, config) ==
    [config |-> [config EXCEPT !.command_prefix_changed = FALSE,
                               !.aliases_changed = FALSE,
                               !.roll_prefix_changed = FALSE,
                               !.roll_info_changed = FALSE],
     closure |-> SetClosure(id,
        [command_prefix |-> IF config.command_prefix_changed
                            THEN [some |-> TRUE, v |-> config.command_prefix]
                            ELSE NoChange.command_prefix,
         aliases |-> IF config.aliases_changed
                     THEN [some |-> TRUE, v |-> MapToJson(config.aliases)]
                     ELSE NoChange.aliases,
         roll_prefix |-> IF config.roll_prefix_changed
                         THEN [some |-> TRUE, v |-> ListToJson(config.roll_prefix)]
                         ELSE NoChange.roll_prefix,
         roll_info |-> IF config.roll_info_changed
                       THEN [some |-> TRUE, v |-> config.roll_info]
                       ELSE NoChange.roll_info])]

\* Mutant of ApplyChange: the update never writes the command_prefix column.
ApplyChangeSkipsCommandPrefix(row, change) ==
    [f \in Fields |-> IF change[f].some /\ f # "command_prefix" THEN change[f].v ELSE row[f]]

\* diesel::update(..).set(change) : the columns named by the changeset.
ApplyChange(row, change) ==
    [f \in Fields |-> IF change[f].some THEN change[f].v ELSE row[f]]

(* ------------------------------- cache -------------------------------- *)
\* SizedCache: the keys, most recently used first, and the entries.
BlankInfo == ClientInformationNew(ClientConfigNew)
InCache(order, id) == Contains(order, id)
Without(order, id) == SelectSeq(order, LAMBDA k : k # id)

\* cache_get_mut on a hit: the key becomes the most recently used.
CacheGetMut(order, id) == <<id>> \o Without(order, id)

\* cache_set: insert at the front; a full cache drops its least recently
\* used entry.
CacheSet(order, info, id, new) ==
    LET base == Without(order, id)
        kept == IF Len(base) >= CacheSize THEN SubSeq(base, 1, CacheSize - 1) ELSE base
        ord == <<id>> \o kept
    IN [order |-> ord,
        info |-> [k \in Ids |-> IF k = id THEN new
                                ELSE IF Contains(ord, k) THEN info[k] ELSE BlankInfo]]

\* Mutant of Replay: the queued ops run last first.
RECURSIVE ReplayLastFirst(_, _)
ReplayLastFirst(info, msgs) ==
    IF msgs = <<>> THEN [client |-> info, replies |-> <<>>, wb |-> FALSE]
    ELSE LET rest == ReplayLastFirst(info, Tail(msgs))
             r == RunCmd(rest.client, Head(msgs).op)
         IN [client |-> r.client,
             replies |-> <<r.reply>> \o rest.replies,
             wb |-> r.wb \/ rest.wb]

\* The replay of the ops queued behind a load (query_cache.remove(..) ..
\* .map(run_cmd).reduce(|)): every op runs, in queue order.
RECURSIVE Replay(_, _)
Replay(info, msgs) ==
    IF msgs = <<>> THEN [client |-> info, replies |-> <<>>, wb |-> FALSE]
    ELSE LET r == RunCmd(info, Head(msgs).op)
             rest == Replay(r.client, Tail(msgs))
         IN [client |-> rest.client,
             replies |-> <<r.reply>> \o rest.replies,
             wb |-> r.wb \/ rest.wb]

(* ------------------------------- state -------------------------------- *)
(* ---------------------- file-backed storage (pure) -------------------- *)
\* bot-utils/src/storage.rs : ClientInformation of the file-backed actor.
FileClientInformationNew ==
    [command_prefix |-> DefaultCommandPrefix, roll_prefix |-> <<>>, alias |-> EmptyAliases]

\* serde_cbor::to_vec / from_slice of a ClientInformation; a file may also
\* hold bytes that do not parse.
ToCbor(info) ==
    [ok |-> TRUE, command_prefix |-> info.command_prefix, roll_prefix |-> info.roll_prefix,
     alias |-> {<<n, info.alias[n]>> : n \in {k \in AliasNames : info.alias[k] # NoExpr}}]
GarbageCbor == [ok |-> FALSE, command_prefix |-> "", roll_prefix |-> <<>>, alias |-> {}]
FromCbor(bytes) ==
    [command_prefix |-> bytes.command_prefix, roll_prefix |-> bytes.roll_prefix,
     alias |-> [n \in AliasNames |->
                   IF \E e \in Exprs : <<n, e>> \in bytes.alias
                   THEN CHOOSE e \in Exprs : <<n, e>> \in bytes.alias
                   ELSE NoExpr]]

NoFile == [present |-> FALSE, bytes |-> GarbageCbor]
File(bytes) == [present |-> TRUE, bytes |-> bytes]

\* The loader task's match on fs::read and serde_cbor::from_slice.
LoadFile(f) ==
    IF f.present /\ f.bytes.ok THEN FromCbor(f.bytes) ELSE FileClientInformationNew

\* write_handler's channel capacity and the width of write_handler_counter.
WriteHandlerQueueSize == 32
CounterModulus == 256

\* Storage::handle on an Available entry: the new data, the reply, whether
\* the data is sent to the write handler, and whether the arm returns from
\* handle.
FileOpResult(data, reply, write, ret) ==
    [data |-> data, reply |-> reply, write |-> write, ret |-> ret]

FileRunOp(data, op) ==
    CASE op.type = "GetCommandPrefix" ->
            FileOpResult(data, ReplyStr(data.command_prefix), FALSE, FALSE)
      [] op.type = "SetCommandPrefix" ->
            FileOpResult([data EXCEPT !.command_prefix = op.s], ReplyUnit, TRUE, FALSE)
      [] op.type = "GetRollPrefixes" ->
            FileOpResult(data, ReplyList(data.roll_prefix), FALSE, FALSE)
      [] op.type = "RemoveRollPrefix" ->
            IF Contains(data.roll_prefix, op.s)
            THEN FileOpResult([data EXCEPT !.roll_prefix = RemoveAt(@, Position(@, op.s))],
                              ReplyOk, TRUE, TRUE)
            ELSE FileOpResult(data, ReplyErr, FALSE, FALSE)
      [] op.type = "AddRollPrefix" ->
            IF Contains(data.roll_prefix, op.s)
            THEN FileOpResult(data, ReplyErr, FALSE, TRUE)
            ELSE FileOpResult([data EXCEPT !.roll_prefix = Append(@, op.s)],
                              ReplyOk, TRUE, FALSE)
      [] op.type = "GetAllAlias" ->
            FileOpResult(data, ReplyMap(data.alias), FALSE, FALSE)
      [] op.type = "GetAlias" ->
            FileOpResult(data, ReplyOpt(data.alias[op.s]), FALSE, FALSE)
      [] op.type = "AddAlias" ->
            FileOpResult([data EXCEPT !.alias[op.s] = op.e], ReplyUnit, TRUE, FALSE)
      [] op.type = "RemoveAlias" ->
            FileOpResult([data EXCEPT !.alias[op.s] = NoExpr],
                         IF data.alias[op.s] # NoExpr THEN ReplyOk ELSE ReplyErr,
                         TRUE, FALSE)

\* ClientInformationWrapper, and None for an id without an entry.
NoEntry == [state |-> "None", data |-> FileClientInformationNew, waiting |-> <<>>,
            writer |-> 1]
Waiting(vec) == [NoEntry EXCEPT !.state = "Waiting", !.waiting = vec]
Available(data, writer) == [NoEntry EXCEPT !.state = "Available", !.data = data,
                                           !.writer = writer]

\* Messages of the file-backed actor's channel.
FileOpMsg(c, id, op) == [kind |-> "op", client |-> c, id |-> id, op |-> op,
                         info |-> FileClientInformationNew]
SetClientInfo(id, info) == [kind |-> "SetClientInfo", client |-> 1, id |-> id,
                            op |-> Op("none", "", NoExpr, FALSE, <<>>), info |-> info]

(* --------------------------- command parsing -------------------------- *)
\* A message text is the sequence of its whitespace-separated tokens; the
\* configured prefixes are single tokens, so tag(prefix) is a test of the
\* first token.
Cmd(t, s, e, b, x) == [type |-> t, s |-> s, e |-> e, b |-> b, x |-> x]
NoCommand == Cmd("None", "", NoExpr, FALSE, <<>>)
CmdHelp == Cmd("Help", "", NoExpr, FALSE, <<>>)

\* Commands that change the tenant's configuration.
MutCommandTypes == {"SetCommandPrefix", "AddRollPrefix", "RemoveRollPrefix", "AddAlias",
                    "RemoveAlias", "SetRollInfo"}

\* A text is a sequence of tokens: words, "$" names, runs of whitespace
\* (Blank), a word with a character of category "other" inside, and a "$"
\* that no name follows (BareDollar). Whitespace that the grammar makes
\* optional between two tokens is not written.
DollarTokens == {"$x", "$y"}
DollarName(tok) == IF tok = "$x" THEN "x" ELSE "y"
Blank == " "
OtherTokens == {"x<U+200B>y"}
BareDollar == "$"

\* recognize(many1(chars_set)) takes the token whole: it is not empty and has
\* no "$", separator or other character inside.
CharsSet(tok) == tok \notin DollarTokens \cup OtherTokens \cup {Blank, BareDollar, ""}

\* multispace0 on both sides of what parse_command and parse_roll delimit.
RECURSIVE SkipBlanks(_)
SkipBlanks(text) ==
    IF text # <<>> /\ Head(text) = Blank THEN SkipBlanks(Tail(text)) ELSE text
RECURSIVE DropBlanksAtEnd(_)
DropBlanksAtEnd(text) ==
    IF text # <<>> /\ text[Len(text)] = Blank
    THEN DropBlanksAtEnd(SubSeq(text, 1, Len(text) - 1))
    ELSE text
Delimited(text) == DropBlanksAtEnd(SkipBlanks(text))

\* tag(prefix) : what follows the prefix, if the text starts with it.
AfterTag(text, prefix) ==
    IF prefix = "" THEN [ok |-> TRUE, rest |-> text]
    ELSE IF text # <<>> /\ text[1] = prefix THEN [ok |-> TRUE, rest |-> Tail(text)]
    ELSE [ok |-> FALSE, rest |-> <<>>]

\* The alt(..) of sub-commands of parse_command, on the tokens after the
\* prefix; ok is FALSE when none matches the whole remainder.
SubCommand(rest) ==
    LET n == Len(rest)
        yes(c) == [ok |-> TRUE, cmd |-> c]
    IN CASE n = 1 /\ rest[1] \in {"h", "help"} -> yes(CmdHelp)
         [] n = 1 /\ rest[1] = "rh" -> yes(Cmd("RollHelp", "", NoExpr, FALSE, <<>>))
         [] n = 1 /\ rest[1] \in {"i", "info"} -> yes(Cmd("Info", "", NoExpr, FALSE, <<>>))
         [] n = 2 /\ rest[1] = "cp" /\ rest[2] \in {"g", "get"} ->
                yes(Cmd("GetCommandPrefix", "", NoExpr, FALSE, <<>>))
         [] n = 3 /\ rest[1] = "cp" /\ rest[2] \in {"s", "set"} /\ CharsSet(rest[3]) ->
                yes(Cmd("SetCommandPrefix", rest[3], NoExpr, FALSE, <<>>))
         [] n = 2 /\ rest[1] = "rp" /\ rest[2] \in {"l", "list"} ->
                yes(Cmd("ListRollPrefix", "", NoExpr, FALSE, <<>>))
         [] n = 3 /\ rest[1] = "rp" /\ rest[2] \in {"a", "add"} /\ CharsSet(rest[3]) ->
                yes(Cmd("AddRollPrefix", rest[3], NoExpr, FALSE, <<>>))
         [] n = 2 /\ rest[1] = "rp" /\ rest[2] \in {"a", "add"} ->
                yes(Cmd("AddRollPrefix", "", NoExpr, FALSE, <<>>))
         [] n = 3 /\ rest[1] = "rp" /\ rest[2] \in {"r", "remove"} /\ CharsSet(rest[3]) ->
                yes(Cmd("RemoveRollPrefix", rest[3], NoExpr, FALSE, <<>>))
         [] n = 2 /\ rest[1] = "rp" /\ rest[2] \in {"r", "remove"} ->
                yes(Cmd("RemoveRollPrefix", "", NoExpr, FALSE, <<>>))
         [] n = 4 /\ rest[1] = "a" /\ rest[2] \in {"a", "add"} /\ CharsSet(rest[3])
                  /\ rest[4] \in Exprs ->
                yes(Cmd("AddAlias", rest[3], rest[4], FALSE, <<>>))
         [] n = 3 /\ rest[1] = "a" /\ rest[2] \in {"r", "remove"} /\ CharsSet(rest[3]) ->
                yes(Cmd("RemoveAlias", rest[3], NoExpr, FALSE, <<>>))
         [] n = 2 /\ rest[1] = "a" /\ rest[2] \in {"l", "list"} ->
                yes(Cmd("ListAliases", "", NoExpr, FALSE, <<>>))
         [] n = 2 /\ rest[1] = "ri" /\ rest[2] \in {"g", "get"} ->
                yes(Cmd("GetRollInfo", "", NoExpr, FALSE, <<>>))
         [] n = 3 /\ rest[1] = "ri" /\ rest[2] \in {"s", "set"}
                  /\ rest[3] \in {"t", "true", "1"} ->
                yes(Cmd("SetRollInfo", "", NoExpr, TRUE, <<>>))
         [] n = 3 /\ rest[1] = "ri" /\ rest[2] \in {"s", "set"}
                  /\ rest[3] \in {"f", "false", "0"} ->
                yes(Cmd("SetRollInfo", "", NoExpr, FALSE, <<>>))
         [] n = 2 /\ rest[1] \in {"r", "roll"} /\ rest[2] \in Exprs ->
                yes(Cmd("Roll", "", NoExpr, FALSE, <<rest[2]>>))
         [] OTHER -> [ok |-> FALSE, cmd |-> NoCommand]

\* parse_command : tag(prefix), then a sub-command or success(Command::Help).
ParseCommand(text, prefix) ==
    LET t == AfterTag(text, prefix)
        sub == SubCommand(Delimited(t.rest))
    IN IF t.ok
       THEN [ok |-> TRUE, cmd |-> IF sub.ok THEN sub.cmd ELSE CmdHelp]
       ELSE [ok |-> FALSE, cmd |-> NoCommand]

\* parse_roll : prefix, expression, end of input.
ParseRoll(text, prefix) ==
    LET t == AfterTag(text, prefix)
        rest == Delimited(t.rest)
    IN IF t.ok /\ Len(rest) = 1 /\ rest[1] \in Exprs
       THEN [ok |-> TRUE, cmd |-> Cmd("Roll", "", NoExpr, FALSE, <<rest[1]>>)]
       ELSE [ok |-> FALSE, cmd |-> NoCommand]

\* parse_extra_aliases : the $names of the text, in order; many0 ends at
\* the first "$" that many1(chars_set) does not follow.
RECURSIVE ParseExtraAliases(_)
ParseExtraAliases(text) ==
    IF text = <<>> \/ Head(text) = BareDollar THEN <<>>
    ELSE (IF Head(text) \in DollarTokens THEN <<DollarName(Head(text))>> ELSE <<>>)
         \o ParseExtraAliases(Tail(text))

\* string.to_string() : the whole message as one candidate; only a
\* one-token message can be a key of the alias map.
WholeText(text) == IF Len(text) = 1 THEN text[1] ELSE "(text)"

\* The candidate list parse sends with StorageOps::Get.
Candidates(text) == Append(ParseExtraAliases(text), WholeText(text))

\* parse, after the storage lookup has been answered with bundle.
RECURSIVE FirstRoll(_, _)
FirstRoll(text, prefixes) ==
    IF prefixes = <<>> THEN [ok |-> FALSE, cmd |-> NoCommand]
    ELSE IF ParseRoll(text, Head(prefixes)).ok THEN ParseRoll(text, Head(prefixes))
    ELSE FirstRoll(text, Tail(prefixes))

\* A parse that looks at the resolved aliases first.
ParseAliasesFirst(text, bundle) ==
    IF bundle.x # <<>> THEN Cmd("AliasRoll", "", NoExpr, FALSE, bundle.x)
    ELSE IF ParseCommand(text, bundle.s).ok THEN ParseCommand(text, bundle.s).cmd
    ELSE IF FirstRoll(text, bundle.l).ok THEN FirstRoll(text, bundle.l).cmd
    ELSE NoCommand

Parse(text, bundle) ==
    IF ParseCommand(text, bundle.s).ok THEN ParseCommand(text, bundle.s).cmd
    ELSE IF FirstRoll(text, bundle.l).ok THEN FirstRoll(text, bundle.l).cmd
    ELSE IF bundle.x # <<>> THEN Cmd("AliasRoll", "", NoExpr, FALSE, bundle.x)
    ELSE NoCommand

(* ------------------------------- eval --------------------------------- *)
\* CommandResult, and "None" for eval's Option::None.
Res(t, s, r, l, b) == [t |-> t, s |-> s, r |-> r, l |-> l, b |-> b]
NoResult == Res("pending", "", NoReply, <<>>, FALSE)

\* The commands eval puts behind check_permission().await.
GatedCommandTypes == {"SetCommandPrefix", "AddRollPrefix", "RemoveRollPrefix", "AddAlias",
                      "RemoveAlias"}
\* The commands eval answers with one more storage call.
CallCommandTypes == GatedCommandTypes \cup {"ListRollPrefix", "ListAliases", "SetRollInfo"}

\* The StorageHandle method eval calls for a command.
OpOf(cmd) ==
    CASE cmd.type = "ListRollPrefix" -> Op("GetRollPrefixes", "", NoExpr, FALSE, <<>>)
      [] cmd.type = "ListAliases" -> Op("GetAllAlias", "", NoExpr, FALSE, <<>>)
      [] OTHER -> Op(cmd.type, cmd.s, cmd.e, cmd.b, <<>>)

\* An eval that answers Help with the built-in prefix.
ImmediateResultHelpDefault(cmd, prefix, roll_info) ==
    CASE cmd.type = "Help" -> Res("Help", DefaultCommandPrefix, NoReply, <<>>, FALSE)
      [] cmd.type = "GetCommandPrefix" -> Res("GetCommandPrefix", prefix, NoReply, <<>>, FALSE)
      [] cmd.type = "GetRollInfo" -> Res("GetRollInfo", "", NoReply, <<>>, roll_info)
      [] cmd.type \in {"Roll", "AliasRoll"} -> Res("Roll", "", NoReply, cmd.x, roll_info)
      [] OTHER -> Res(cmd.type, "", NoReply, <<>>, FALSE)

\* The result of a command eval answers from the bundle alone.
ImmediateResult(cmd, prefix, roll_info) ==
    CASE cmd.type = "Help" -> Res("Help", prefix, NoReply, <<>>, FALSE)
      [] cmd.type = "GetCommandPrefix" -> Res("GetCommandPrefix", prefix, NoReply, <<>>, FALSE)
      [] cmd.type = "GetRollInfo" -> Res("GetRollInfo", "", NoReply, <<>>, roll_info)
      [] cmd.type \in {"Roll", "AliasRoll"} -> Res("Roll", "", NoReply, cmd.x, roll_info)
      [] OTHER -> Res(cmd.type, "", NoReply, <<>>, FALSE)

\* The result eval builds from the reply of the storage call.
CallResult(cmd, reply) ==
    CASE cmd.type = "SetCommandPrefix" -> Res("SetCommandPrefix", cmd.s, NoReply, <<>>, FALSE)
      [] cmd.type \in {"AddAlias", "SetRollInfo"} -> Res(cmd.type, "", NoReply, <<>>, FALSE)
      [] OTHER -> Res(cmd.type, "", reply, <<>>, FALSE)

NoEval == [pc |-> "idle", id |-> 1, text |-> <<>>, perm |-> FALSE, asked |-> FALSE,
           cmd |-> NoCommand, prefix |-> "", roll_info |-> FALSE, result |-> NoResult]

(* ------------------------- checked arithmetic ------------------------- *)
\* TLC's integers have 32 bits: i64 is modelled with IntBits bits and u32
\* with half as many, which keeps what matters here, that the square of a
\* u32 may not fit an i64.
I64Min == 0 - 2^(IntBits - 1)
I64Max == 2^(IntBits - 1) - 1
U32Max == 2^(IntBits \div 2) - 1
InI64(x) == I64Min <= x /\ x <= I64Max

\* Two's complement wrap of an exact result.
Wrap(x) == ((x - I64Min) % 2^IntBits) + I64Min

\* Integer division of Rust: the quotient is truncated toward zero.
Abs(x) == IF x < 0 THEN 0 - x ELSE x
TruncDiv(a, b) == IF (a < 0) = (b < 0) THEN Abs(a) \div Abs(b) ELSE 0 - (Abs(a) \div Abs(b))

\* Result<_, EvaluationErrors>
Ok(v) == [err |-> "none", v |-> v]
Err(e) == [err |-> e, v |-> 0]
\* Option<i64>::ok_or
OkOr(x, e) == IF InI64(x) THEN Ok(x) ELSE Err(e)

\* i64::checked_div(..).ok_or(DivideByZero): None for a zero divisor and for
\* a quotient that does not fit.
CheckedDiv(a, b) ==
    IF b = 0 THEN Err("DivideByZero") ELSE OkOr(TruncDiv(a, b), "DivideByZero")

\* Term::Calculation, "let result = match op {..}?"
Calculation(a, op, b) ==
    CASE op = "Add" -> OkOr(a + b, "Overflow")
      [] op = "Sub" -> OkOr(a - b, "Overflow")
      [] op = "Mul" -> OkOr(a * b, "Overflow")
      [] op = "Div" -> CheckedDiv(a, b)

Operations == {"Add", "Sub", "Mul", "Div"}

(* ------------------------------ dice terms ---------------------------- *)
Dice(throws, type, faces) == [throws |-> throws, type |-> type, faces |-> faces]
NoFilter == [f |-> "none", n |-> 0]
NoSelector == [s |-> "none", n |-> 0]

\* The values one throw may give, from its one or two samples.
Samples(dice) ==
    CASE dice.type = "Number" -> {<<x, 1>> : x \in {1, dice.faces}}
      [] dice.type = "Fudge" -> {<<x, 1>> : x \in {0 - 1, 0, 1}}
      [] dice.type = "Multiply" -> {1, dice.faces} \X {1, dice.faces}

\* rolls.push(..) of one pass: the sample, or the checked product of two.
ThrowValue(dice, xy) ==
    IF dice.type = "Multiply" THEN OkOr(xy[1] * xy[2], "Overflow") ELSE Ok(xy[1])

\* The closure of a filter whose BiggerEq admits the target itself.
PassesOrEqual(filter, i) ==
    CASE filter.f = "Bigger" -> i > filter.n
      [] filter.f = "BiggerEq" -> i >= filter.n
      [] filter.f = "Smaller" -> i < filter.n
      [] filter.f = "SmallerEq" -> i <= filter.n
      [] filter.f = "NotEq" -> i # filter.n
      [] OTHER -> TRUE

\* The closure FilteredDice::evaluate filters with.
Passes(filter, i) ==
    CASE filter.f = "Bigger" -> i > filter.n
      [] filter.f = "BiggerEq" -> i > filter.n
      [] filter.f = "Smaller" -> i < filter.n
      [] filter.f = "SmallerEq" -> i <= filter.n
      [] filter.f = "NotEq" -> i # filter.n
      [] OTHER -> TRUE

RECURSIVE SelectSeq2(_, _)
SelectSeq2(l, filter) ==
    IF l = <<>> THEN <<>>
    ELSE IF Passes(filter, Head(l)) THEN <<Head(l)>> \o SelectSeq2(Tail(l), filter)
    ELSE SelectSeq2(Tail(l), filter)

\* FilteredDice::evaluate on the pair (rolls, rolls_copy) of Dice::evaluate.
FilteredEvaluate(filter, original) == <<SelectSeq2(original[1], filter), original[2]>>

Sorted(l) == SortSeq(l, LAMBDA x, y : x < y)

\* SelectedDice::evaluate, with the reported rolls sorted as well.
SelectedEvaluateSorted(selector, original) ==
    IF selector.s # "none" /\ Len(original[1]) > selector.n
    THEN <<IF selector.s = "Higher"
           THEN SubSeq(Sorted(original[1]), Len(original[1]) - selector.n + 1, Len(original[1]))
           ELSE SubSeq(Sorted(original[1]), 1, selector.n),
           Sorted(original[2])>>
    ELSE original

\* SelectedDice::evaluate without its sort_unstable.
SelectedEvaluateUnsorted(selector, original) ==
    IF selector.s # "none" /\ Len(original[1]) > selector.n
    THEN <<IF selector.s = "Higher"
           THEN SubSeq(original[1], Len(original[1]) - selector.n + 1, Len(original[1]))
           ELSE SubSeq(original[1], 1, selector.n),
           original[2]>>
    ELSE original

\* SelectedDice::evaluate
SelectedEvaluate(selector, original) ==
    IF selector.s # "none" /\ Len(original[1]) > selector.n
    THEN <<IF selector.s = "Higher"
           THEN SubSeq(Sorted(original[1]), Len(original[1]) - selector.n + 1, Len(original[1]))
           ELSE SubSeq(Sorted(original[1]), 1, selector.n),
           original[2]>>
    ELSE original

RECURSIVE Sum(_)
Sum(l) == IF l = <<>> THEN 0 ELSE Head(l) + Sum(Tail(l))

\* "reduce(|a, b| a + b)" leaves the i64 range at some partial sum.
SumOverflows(l) == \E k \in 1..Len(l) : ~InI64(Sum(SubSeq(l, 1, k)))

\* What one term gives: the error, the value, the retained dice values and
\* the rolls reported.
TermResult(err, v, kept, rolls) == [err |-> err, v |-> v, kept |-> kept, rolls |-> rolls]
NoTermResult == TermResult("none", 0, <<>>, <<>>)

\* Term::DiceThrow on what SelectedDice::evaluate returned.  The sum is
\* unchecked: past the i64 range it wraps in a build without overflow
\* checks and panics in a build with them.
DiceThrowResults(selected) ==
    IF SumOverflows(selected[1])
    THEN {TermResult("none", Wrap(Sum(selected[1])), selected[1], selected[2]),
          TermResult("panic", 0, selected[1], selected[2])}
    ELSE {TermResult("none", Sum(selected[1]), selected[1], selected[2])}

\* The terms evaluated: Calculations over the edges of i64, and dice with
\* and without filter and selector.
EdgeInts == {I64Min, 0 - 1, 0, 1, 2, I64Max}
\* The largest face count whose square fits an i64.
RootFaces == CHOOSE n \in 1..U32Max : n * n <= I64Max /\ (n + 1) * (n + 1) > I64Max

ArithInput(kind, a, op, b, dice, filter, selector) ==
    [kind |-> kind, a |-> a, op |-> op, b |-> b, dice |-> dice, filter |-> filter,
     selector |-> selector]

DiceInputs ==
    {Dice(t, "Number", n) : t \in 1..MaxThrows, n \in {3, U32Max}}
        \cup {Dice(t, "Fudge", 0) : t \in 1..MaxThrows}
        \cup {Dice(t, "Multiply", n) : t \in 1..MaxThrows, n \in {3, RootFaces, U32Max}}

ArithInputs ==
    {ArithInput("calc", a, op, b, Dice(1, "Fudge", 0), NoFilter, NoSelector) :
        a \in EdgeInts, op \in Operations, b \in EdgeInts}
    \cup {ArithInput("dice", 0, "Add", 0, d, f, sel) :
            d \in DiceInputs,
            f \in {NoFilter, [f |-> "Bigger", n |-> 1], [f |-> "BiggerEq", n |-> 3],
                   [f |-> "Smaller", n |-> 3], [f |-> "SmallerEq", n |-> 1],
                   [f |-> "NotEq", n |-> 1]},
            sel \in {NoSelector, [s |-> "Higher", n |-> 1], [s |-> "Lower", n |-> 1],
                     [s |-> "Higher", n |-> 2], [s |-> "Lower", n |-> 2]}}

NoArith ==
    [pc |-> "idle", in |-> ArithInput("calc", 0, "Add", 0, Dice(1, "Fudge", 0), NoFilter, NoSelector),
     rolls |-> <<>>, filtered |-> <<>>, result |-> NoTermResult]

(* --------------------------- roll evaluation -------------------------- *)
\* A Term, as the sequence of its Constant and DiceThrow leaves in the order
\* evaluate visits them, and the error its Calculation ends with, if any.
ConstLeaf == [kind |-> "const", throws |-> 0]
DiceLeaf(n) == [kind |-> "dice", throws |-> n]
TermOf(leaves, err) == [leaves |-> leaves, err |-> err]
\* Expression::Simple(term) and Expression::List(count, term).
SimpleExpr(term) == [list |-> FALSE, count |-> 1, term |-> term]
ListExpr(count, term) == [list |-> TRUE, count |-> count, term |-> term]

\* roll_counter is a u8.
RollCounterModulus == 256
\* The history counter stops one past the modulus.
SinceCap == RollCounterModulus + 1

\* The expressions a job evaluates.
RollExprs ==
    {SimpleExpr(TermOf(<<ConstLeaf>>, "none")),
     SimpleExpr(TermOf(<<DiceLeaf(BigThrows)>>, "none")),
     SimpleExpr(TermOf(<<ConstLeaf, DiceLeaf(1)>>, "none")),
     SimpleExpr(TermOf(<<ConstLeaf, ConstLeaf>>, "DivideByZero")),
     ListExpr(2, TermOf(<<DiceLeaf(1)>>, "none")),
     ListExpr(BigCount, TermOf(<<ConstLeaf, DiceLeaf(1)>>, "none")),
     ListExpr(BigCount, TermOf(<<ConstLeaf>>, "none"))}

NoRoll ==
    [pc |-> "idle", expr |-> SimpleExpr(TermOf(<<ConstLeaf>>, "none")), iter |-> 0,
     leaf |-> 1, entered |-> FALSE, throw |-> 0, counter |-> 0, flag |-> FALSE,
     since |-> 0, unpolled |-> 0, sawTrue |-> FALSE, result |-> "none"]

\* History: one more throw or list iteration since the flag was set.
Further(r) == IF r.flag /\ r.since < SinceCap THEN [r EXCEPT !.since = @ + 1] ELSE r

Returned(r, result) == [r EXCEPT !.pc = "done", !.result = result]

\* A u8 that never wraps.
SaturatingAdd(c) == IF c + 1 < RollCounterModulus THEN c + 1 ELSE c

\* roll_counter.wrapping_add(1)
WrappingAdd(c) == (c + 1) % RollCounterModulus

\* History: timeout_f() was called and gave v; no throw since.
Polled(r, v) == [r EXCEPT !.unpolled = 0, !.sawTrue = v]

\* History: rolls.push(..), one more throw since timeout_f() was last called.
Thrown(r) == [Further(r) EXCEPT !.unpolled = @ + 1]

(* ---------------------------- roll executor --------------------------- *)
\* mpsc::channel(32) of start_rng_provider.
RngQueueSize == 32
Calls == 1..NumCalls
GetRng(c) == [type |-> "GetRng", c |-> c]
SetCryptoRng == [type |-> "SetCryptoRng", c |-> 0]
NoTime == 0 - 1

\* One call of roll: where its future is, whether its seed request has been
\* answered, its job in the pool, the times of its protocol and its flag.
NoCall ==
    [pc |-> "idle", seed |-> FALSE, job |-> "none", submitted |-> NoTime, start |-> NoTime,
     flag |-> FALSE, flagAtStart |-> FALSE, result |-> "none"]

\* The instant the timer task sleeps until, with the job's start by mistake
\* taken to be its submission.
DeadlineFromSubmission(c) == c.submitted + JobTimeout

\* sleep_until(time_receiver.await.unwrap() + timeout_clone)
Deadline(c) == c.start + JobTimeout

\* The next instant after t at which the interval of period Period ticks.
NextTickAfter(t) == ((t \div Period) + 1) * Period

(* --------------------------- expression texts ------------------------- *)
\* A text is a sequence of tokens: a run of digits with its value, or one
\* of the other characters the grammar knows, a blank among them.
Tok(t) == [t |-> t, n |-> 0]
Num(n) == [t |-> "num", n |-> n]
Space == Tok(" ")

\* IResult: Ok((rest, v)) or Err.
POk(v, rest) == [ok |-> TRUE, v |-> v, rest |-> rest]
PErr == [ok |-> FALSE, v |-> 0, rest |-> <<>>]

\* The element of a set of one: "The({e : x \in {v}})" is e with x standing
\* for the value of v, computed once.
The(S) == CHOOSE v \in S : TRUE

RECURSIVE Multispace0(_)
Multispace0(ts) == IF ts # <<>> /\ Head(ts) = Space THEN Multispace0(Tail(ts)) ELSE ts

\* tag / tag_no_case for one of the tokens in set.
Tag(set, ts) == IF ts # <<>> /\ Head(ts).t \in set THEN POk(Head(ts).t, Tail(ts)) ELSE PErr

\* parse_u32 : digits with a value in 1..u32::MAX.
ParseU32(ts) ==
    IF ts # <<>> /\ Head(ts).t = "num" /\ Head(ts).n > 0 /\ Head(ts).n <= U32Max
    THEN POk(Head(ts).n, Tail(ts)) ELSE PErr

\* parse_i64 : an optional sign, then digits, with a value in i64.
ParseI64(ts) ==
    LET signed == ts # <<>> /\ Head(ts).t \in {"+", "-"}
        digits == IF signed THEN Tail(ts) ELSE ts
    IN IF digits = <<>> \/ Head(digits).t # "num" THEN PErr
       ELSE LET v == IF signed /\ Head(ts).t = "-" THEN 0 - Head(digits).n ELSE Head(digits).n
            IN IF InI64(v) THEN POk(v, Tail(digits)) ELSE PErr

\* parse_dice_type
ParseDiceType(ts) ==
    LET n == ParseU32(ts)
        x == IF n.ok THEN Tag({"x", "X"}, Multispace0(n.rest)) ELSE PErr
    IN IF x.ok THEN POk([type |-> "Multiply", faces |-> n.v], x.rest)
       ELSE IF n.ok THEN POk([type |-> "Number", faces |-> n.v], n.rest)
       ELSE IF Tag({"f", "F"}, ts).ok THEN POk([type |-> "Fudge", faces |-> 0], Tail(ts))
       ELSE IF Tag({"%"}, ts).ok THEN POk([type |-> "Number", faces |-> 100], Tail(ts))
       ELSE PErr

\* parse_dice
ParseDice(ts) ==
    LET n == ParseU32(ts)
        throws == IF n.ok THEN n ELSE POk(1, ts)
        digit == Tag({"d", "D", "w", "W"}, Multispace0(throws.rest))
        type == IF digit.ok THEN ParseDiceType(Multispace0(digit.rest)) ELSE PErr
    IN IF type.ok THEN POk(Dice(throws.v, type.v.type, type.v.faces), type.rest) ELSE PErr

\* parse_filter
ParseFilter(ts) ==
    LET t == Tag({">=", ">", "<=", "<", "!="}, ts)
    IN IF ~t.ok THEN PErr
       ELSE POk(CASE t.v = ">=" -> "BiggerEq" [] t.v = ">" -> "Bigger" [] t.v = "<=" -> "SmallerEq"
                  [] t.v = "<" -> "Smaller" [] t.v = "!=" -> "NotEq", t.rest)

\* parse_filtered_dice, with FilteredDice::Simple as the filter "none"
ParseFilteredDice(ts) ==
    The({LET f == IF d.ok THEN ParseFilter(Multispace0(d.rest)) ELSE PErr
             n == IF f.ok THEN ParseU32(Multispace0(f.rest)) ELSE PErr
         IN IF n.ok THEN POk([dice |-> d.v, filter |-> [f |-> f.v, n |-> n.v]], n.rest)
            ELSE IF d.ok THEN POk([dice |-> d.v, filter |-> NoFilter], d.rest)
            ELSE PErr :
         d \in {ParseDice(ts)}})

\* parse_selector
ParseSelector(ts) ==
    LET t == Tag({"h", "H", "k", "K", "l", "L"}, ts)
    IN IF ~t.ok THEN PErr
       ELSE POk(IF t.v \in {"l", "L"} THEN "Lower" ELSE "Higher", t.rest)

\* parse_selected_dice, with SelectedDice::Unchanged as the selector "none"
ParseSelectedDice(ts) ==
    The({LET sel == IF d.ok THEN ParseSelector(Multispace0(d.rest)) ELSE PErr
             n == IF sel.ok THEN ParseU32(Multispace0(sel.rest)) ELSE PErr
         IN IF n.ok
            THEN POk([dice |-> d.v.dice, filter |-> d.v.filter,
                      selector |-> [s |-> sel.v, n |-> n.v]], n.rest)
            ELSE IF d.ok
            THEN POk([dice |-> d.v.dice, filter |-> d.v.filter, selector |-> NoSelector], d.rest)
            ELSE PErr :
         d \in {ParseFilteredDice(ts)}})

\* enum Term
Constant(c) == [k |-> "Constant", c |-> c]
DiceThrowTerm(d) == [k |-> "DiceThrow", d |-> d]
CalculationTerm(l, op, r) == [k |-> "Calculation", l |-> l, op |-> op, r |-> r]
SubTerm(t) == [k |-> "SubTerm", t |-> t]

\* parse_operator
ParseOperator(ts) ==
    LET t == Tag({"+", "-", "*", "/"}, ts)
    IN IF ~t.ok THEN PErr
       ELSE POk(CASE t.v = "+" -> "Add" [] t.v = "-" -> "Sub" [] t.v = "*" -> "Mul"
                  [] t.v = "/" -> "Div", t.rest)

RECURSIVE ParseTerm(_)
\* parse_term_subterm
ParseTermSubterm(ts) ==
    IF ~Tag({"("}, ts).ok THEN PErr
    ELSE The({LET close == IF t.ok THEN Tag({")"}, Multispace0(t.rest)) ELSE PErr
              IN IF close.ok THEN POk(SubTerm(t.v), close.rest) ELSE PErr :
              t \in {ParseTerm(Multispace0(Tail(ts)))}})

\* alt((parse_term_roll, parse_term_constant, parse_term_subterm))
ParseTermAtom(ts) ==
    The({IF d.ok THEN POk(DiceThrowTerm(d.v), d.rest)
         ELSE LET c == ParseI64(ts)
              IN IF c.ok THEN POk(Constant(c.v), c.rest) ELSE ParseTermSubterm(ts) :
         d \in {ParseSelectedDice(ts)}})

\* parse_term_calculation
ParseTermCalculation(ts) ==
    The({LET op == IF l.ok THEN ParseOperator(Multispace0(l.rest)) ELSE PErr
         IN IF ~op.ok THEN PErr
            ELSE The({IF r.ok THEN POk(CalculationTerm(l.v, op.v, r.v), r.rest) ELSE PErr :
                      r \in {ParseTerm(Multispace0(op.rest))}}) :
         l \in {ParseTermAtom(ts)}})

\* parse_term
ParseTerm(ts) ==
    The({IF calc.ok THEN calc ELSE ParseTermAtom(ts) : calc \in {ParseTermCalculation(ts)}})

\* rearange_term that gives the moved operand to the operator of the right
\* child.
RearangeTermOperatorsSwapped(root) ==
    IF root.k = "Calculation" /\ root.op \in {"Mul", "Div"} /\ root.r.k = "Calculation"
    THEN CalculationTerm(CalculationTerm(root.l, root.r.op, root.r.l), root.op, root.r.r)
    ELSE root

\* rearange_term
RECURSIVE RearangeTerm(_)
RearangeTerm(root) ==
    IF root.k = "Calculation"
    THEN IF root.op \in {"Mul", "Div"} /\ root.r.k = "Calculation"
         THEN CalculationTerm(CalculationTerm(root.l, root.op, root.r.l), root.r.op,
                              RearangeTerm(root.r.r))
         ELSE CalculationTerm(root.l, root.op, RearangeTerm(root.r))
    ELSE IF root.k = "SubTerm" THEN SubTerm(RearangeTerm(root.t))
    ELSE root

\* parse_rearanged_term
ParseRearangedTerm(ts) ==
    The({IF t.ok THEN POk(RearangeTerm(t.v), t.rest) ELSE PErr : t \in {ParseTerm(ts)}})

\* parse_expression
ParseExpression(ts) ==
    LET n == ParseU32(ts)
        open == IF n.ok THEN Tag({"{"}, Multispace0(n.rest)) ELSE PErr
    IN The({LET close == IF t.ok THEN Tag({"}"}, Multispace0(t.rest)) ELSE PErr
            IN IF close.ok THEN POk(ListExpr(n.v, t.v), close.rest)
               ELSE The({IF simple.ok THEN POk(SimpleExpr(simple.v), simple.rest) ELSE PErr :
                         simple \in {ParseRearangedTerm(ts)}}) :
            t \in {IF open.ok THEN ParseRearangedTerm(Multispace0(open.rest)) ELSE PErr}})

\* The text parse_expression hands to parse_rearanged_term: what follows
\* "n{" when there is one, the whole text otherwise.
TermText(ts) ==
    LET n == ParseU32(ts)
        open == IF n.ok THEN Tag({"{"}, Multispace0(n.rest)) ELSE PErr
    IN IF open.ok THEN Multispace0(open.rest) ELSE ts

\* The label: the words up to the end, blanks between them skipped.
RECURSIVE Words(_)
Words(ts) ==
    IF ts = <<>> THEN <<>>
    ELSE IF Head(ts) = Space THEN Words(Tail(ts))
    ELSE <<Head(ts).t>> \o Words(Tail(ts))

\* enum LabeledExpression
Unlabeled(e) == [e |-> e, labeled |-> FALSE, label |-> <<>>]
Labeled(e, l) == [e |-> e, labeled |-> TRUE, label |-> l]

\* parse_labeled
ParseLabeled(ts) ==
    The({IF ~e.ok THEN PErr
         ELSE IF Tag({"#"}, e.rest).ok THEN POk(Labeled(e.v, Words(Tail(e.rest))), <<>>)
         ELSE POk(Unlabeled(e.v), e.rest) :
         e \in {ParseExpression(ts)}})

(* -------------------------- Display of the AST ------------------------ *)
\* Display for Operation, with Sub written as "+".
RenderOperationPlus(op) ==
    CASE op = "Mul" -> Tok("*") [] op = "Div" -> Tok("/") [] OTHER -> Tok("+")

\* Display for Operation
RenderOperation(op) ==
    CASE op = "Mul" -> Tok("*") [] op = "Div" -> Tok("/") [] op = "Add" -> Tok("+")
      [] op = "Sub" -> Tok("-")

\* Display for an i64 and a u32
RenderInt(c) == IF c < 0 THEN <<Tok("-"), Num(0 - c)>> ELSE <<Num(c)>>

\* Display for Dice and DiceType
RenderDice(d) ==
    <<Num(d.throws), Tok("d")>> \o
        CASE d.type = "Number" -> <<Num(d.faces)>>
          [] d.type = "Fudge" -> <<Tok("F")>>
          [] d.type = "Multiply" -> <<Num(d.faces), Tok("x")>>

\* Display for Filter and FilteredDice
RenderFilter(f) ==
    IF f.f = "none" THEN <<>>
    ELSE <<Tok(CASE f.f = "Bigger" -> ">" [] f.f = "BiggerEq" -> ">=" [] f.f = "Smaller" -> "<"
                 [] f.f = "SmallerEq" -> "<=" [] f.f = "NotEq" -> "!="), Num(f.n)>>

\* Display for Selector and SelectedDice
RenderSelector(sel) ==
    IF sel.s = "none" THEN <<>>
    ELSE <<Tok(IF sel.s = "Higher" THEN "h" ELSE "l"), Num(sel.n)>>

\* Display for Term
RECURSIVE RenderTerm(_)
RenderTerm(t) ==
    CASE t.k = "Constant" -> RenderInt(t.c)
      [] t.k = "DiceThrow" ->
            RenderDice(t.d.dice) \o RenderFilter(t.d.filter) \o RenderSelector(t.d.selector)
      [] t.k = "Calculation" ->
            RenderTerm(t.l) \o <<Space, RenderOperation(t.op), Space>> \o RenderTerm(t.r)
      [] t.k = "SubTerm" -> <<Tok("(")>> \o RenderTerm(t.t) \o <<Tok(")")>>

\* Display for Expression
RenderExpression(e) ==
    IF e.list THEN <<Num(e.count), Tok("{")>> \o RenderTerm(e.term) \o <<Tok("}")>>
    ELSE RenderTerm(e.term)

\* Display for LabeledExpression: the label is not written.
RenderLabeled(le) == RenderExpression(le.e)

\* Term::evaluate of a term without dice.
RECURSIVE EvaluateTerm(_)
EvaluateTerm(t) ==
    CASE t.k = "Constant" -> Ok(t.c)
      [] t.k = "SubTerm" -> EvaluateTerm(t.t)
      [] t.k = "Calculation" ->
            The({IF l.err # "none" THEN l
                 ELSE The({IF r.err # "none" THEN r ELSE Calculation(l.v, t.op, r.v) :
                           r \in {EvaluateTerm(t.r)}}) :
                 l \in {EvaluateTerm(t.l)}})
      [] OTHER -> Err("dice")

(* ------------------------- evaluation with draws ---------------------- *)
\* The generator: a state, stepped by every sample.  What one evaluation
\* carries along: the generator, the number of samples drawn and of calls of
\* timeout_f, the call from which timeout_f gives true (0: never), the
\* build, and the history of the leaves evaluated.
RngModulus == 2^(IntBits \div 2)
NextRng(s) == (5 * s + 3) % RngModulus

SeedFrom(seed, trip, build) ==
    [rng |-> seed, drawn |-> 0, polls |-> 0, trip |-> trip, build |-> build, iter |-> 1,
     trace |-> <<>>]

\* rng.sample(Uniform::new_inclusive(lo, hi))
Sample(st, lo, hi) ==
    [v |-> lo + (NextRng(st.rng) % (hi - lo + 1)),
     st |-> [st EXCEPT !.rng = NextRng(@), !.drawn = @ + 1]]

\* timeout_f()
Poll(st) ==
    [v |-> st.trip # 0 /\ st.polls + 1 >= st.trip, st |-> [st EXCEPT !.polls = @ + 1]]

DiceResult(err, pair, st) == [err |-> err, pair |-> pair, st |-> st]

\* The for loop of Dice::evaluate from its pass i + 1 on.
RECURSIVE Throws(_, _, _, _, _)
Throws(dice, i, counter, st, rolls) ==
    IF i = dice.throws THEN DiceResult("none", <<rolls, rolls>>, st)
    ELSE LET p == IF WrappingAdd(counter) = 0 THEN Poll(st) ELSE [v |-> FALSE, st |-> st]
             x == CASE dice.type = "Fudge" -> Sample(p.st, 0 - 1, 1)
                    [] OTHER -> Sample(p.st, 1, dice.faces)
             y == Sample(x.st, 1, dice.faces)
         IN IF p.v THEN DiceResult("Timeout", <<>>, p.st)
            ELSE IF dice.type # "Multiply"
            THEN Throws(dice, i + 1, WrappingAdd(counter), x.st, Append(rolls, x.v))
            ELSE IF ~InI64(x.v * y.v) THEN DiceResult("Overflow", <<>>, y.st)
            ELSE Throws(dice, i + 1, WrappingAdd(counter), y.st, Append(rolls, x.v * y.v))

\* Dice::evaluate
DiceEvaluate(dice, st) ==
    IF Poll(st).v THEN DiceResult("Timeout", <<>>, Poll(st).st)
    ELSE Throws(dice, 0, 0, Poll(st).st, <<>>)

\* SelectedDice::evaluate over FilteredDice::evaluate over Dice::evaluate
SelectedDiceEvaluate(d, st) ==
    The({IF r.err # "none" THEN r
         ELSE DiceResult("none",
                         SelectedEvaluate(d.selector, FilteredEvaluate(d.filter, r.pair)), r.st) :
         r \in {DiceEvaluate(d.dice, st)}})

\* The total of a DiceThrow in the build of the evaluation.
DiceThrowResult(selected, build) ==
    CHOOSE r \in DiceThrowResults(selected) :
        SumOverflows(selected[1]) => ((r.err = "panic") <=> (build = "debug"))

\* History: the leaf at path was evaluated in the pass st.iter of the
\* expression, with this error and these rolls.
Visited(st, path, err, rolls) ==
    [st EXCEPT !.trace = Append(@, [iter |-> st.iter, path |-> path, err |-> err,
                                    rolls |-> rolls])]

EvalResult(err, v, rolls, st) == [err |-> err, v |-> v, rolls |-> rolls, st |-> st]

\* [right_r.1, left_r.1].concat()
ConcatRightFirst(left, right) == right \o left

\* [left_r.1, right_r.1].concat()
Concat(left, right) == left \o right

\* Term::evaluate
RECURSIVE TermEvaluate(_, _, _)
TermEvaluate(t, path, st) ==
    CASE t.k = "Constant" -> EvalResult("none", t.c, <<>>, Visited(st, path, "none", <<>>))
      [] t.k = "DiceThrow" ->
            The({IF d.err # "none" THEN EvalResult(d.err, 0, <<>>, Visited(d.st, path, d.err, <<>>))
                 ELSE The({EvalResult(r.err, r.v, r.rolls, Visited(d.st, path, r.err, r.rolls)) :
                           r \in {DiceThrowResult(d.pair, st.build)}}) :
                 d \in {SelectedDiceEvaluate(t.d, st)}})
      [] t.k = "SubTerm" -> TermEvaluate(t.t, path \o <<"s">>, st)
      [] t.k = "Calculation" ->
            The({IF l.err # "none" THEN l
                 ELSE The({IF r.err # "none" THEN r
                           ELSE EvalResult(Calculation(l.v, t.op, r.v).err,
                                           Calculation(l.v, t.op, r.v).v,
                                           Concat(l.rolls, r.rolls), r.st) :
                           r \in {TermEvaluate(t.r, path \o <<"r">>, l.st)}}) :
                 l \in {TermEvaluate(t.l, path \o <<"l">>, st)}})

\* The expressions evaluated.
PlainDice(throws, type, faces) ==
    DiceThrowTerm([dice |-> Dice(throws, type, faces), filter |-> NoFilter,
                   selector |-> NoSelector])

RunExprs ==
    {SimpleExpr(Constant(2)),
     SimpleExpr(PlainDice(2, "Number", 3)),
     SimpleExpr(DiceThrowTerm([dice |-> Dice(3, "Number", 6), filter |-> [f |-> "Bigger", n |-> 1],
                               selector |-> [s |-> "Higher", n |-> 2]])),
     SimpleExpr(CalculationTerm(PlainDice(2, "Number", 3), "Add", PlainDice(1, "Number", 6))),
     SimpleExpr(CalculationTerm(PlainDice(2, "Number", 3), "Div",
                                CalculationTerm(PlainDice(1, "Fudge", 0), "Mul",
                                                PlainDice(1, "Number", 3)))),
     SimpleExpr(CalculationTerm(SubTerm(CalculationTerm(PlainDice(1, "Number", 3), "Sub",
                                                        PlainDice(1, "Fudge", 0))),
                                "Mul", PlainDice(2, "Number", 3))),
     SimpleExpr(CalculationTerm(PlainDice(1, "Multiply", U32Max), "Add",
                                PlainDice(1, "Number", 3))),
     SimpleExpr(CalculationTerm(PlainDice(1, "Number", 3), "Add",
                                PlainDice(MaxThrows, "Multiply", RootFaces))),
     SimpleExpr(CalculationTerm(PlainDice(1, "Multiply", RootFaces), "Mul",
                                PlainDice(1, "Number", 6))),
     ListExpr(2, CalculationTerm(PlainDice(2, "Number", 3), "Add", PlainDice(1, "Number", 6))),
     ListExpr(3, PlainDice(1, "Number", 6)),
     ListExpr(2, CalculationTerm(PlainDice(1, "Number", 3), "Div", PlainDice(1, "Fudge", 0)))}

\* The seeds, spread over the states of the generator.
Seeds == {(k * 2 * NumSeeds) % RngModulus : k \in 0..(NumSeeds - 1)}

NoOutcome == [err |-> "none", results |-> <<>>, st |-> SeedFrom(0, 0, "release")]

\* One evaluation of an expression and, after it, a second one.
NoRun ==
    [pc |-> "idle", expr |-> SimpleExpr(Constant(2)), seed |-> 0, st |-> SeedFrom(0, 0, "release"),
     results |-> <<>>, outcome |-> NoOutcome, first |-> NoOutcome]

(* ---------------------------- written inputs -------------------------- *)
\* What a user writes: operands with an operator character between each two
\* of them, optionally inside "n{ }", optionally followed by "#" and a label.
\* An operand is a number, a chain of numbers in parentheses, or a dice.
NumAtom(n) == [k |-> "num", n |-> n, nums |-> <<>>, ops |-> <<>>, ts |-> <<>>]
SubAtom(nums, ops) == [k |-> "sub", n |-> 0, nums |-> nums, ops |-> ops, ts |-> <<>>]
DiceAtom(ts) == [k |-> "dice", n |-> 0, nums |-> <<>>, ops |-> <<>>, ts |-> ts]

Written(atoms, ops, count, labeled, spaced) ==
    [atoms |-> atoms, ops |-> ops, count |-> count, labeled |-> labeled, spaced |-> spaced]

OperatorChars == {"+", "-", "*", "/"}
WrittenNumbers == {2, 3, 8}
WrittenLabel == <<Tok("a"), Space, Space, Tok("b")>>

\* The spellings of one dice, shortcuts and letter case included.
DiceSpellings ==
    {throws \o <<Tok(digit)>> \o type \o filter \o selector :
        throws \in {<<>>, <<Num(2)>>},
        digit \in {"d", "W"},
        type \in {<<Num(6)>>, <<Tok("%")>>, <<Tok("f")>>, <<Num(3), Tok("x")>>},
        filter \in {<<>>, <<Tok(">="), Num(3)>>, <<Tok("!="), Num(1)>>},
        selector \in {<<>>, <<Tok("k"), Num(1)>>, <<Tok("L"), Num(2)>>}}

\* parts[1] ops[1] parts[2] ... with sep around each operator character.
RECURSIVE SpellChain(_, _, _)
SpellChain(parts, ops, sep) ==
    IF ops = <<>> THEN parts[1]
    ELSE parts[1] \o sep \o <<Tok(ops[1])>> \o sep \o SpellChain(Tail(parts), Tail(ops), sep)

SpellAtom(a, sep) ==
    CASE a.k = "num" -> <<Num(a.n)>>
      [] a.k = "dice" -> a.ts
      [] a.k = "sub" ->
            <<Tok("(")>> \o sep \o SpellChain([i \in 1..Len(a.nums) |-> <<Num(a.nums[i])>>], a.ops, sep)
                \o sep \o <<Tok(")")>>

\* The text of a written input.
Spell(w) ==
    LET sep == IF w.spaced THEN <<Space>> ELSE <<>>
        term == SpellChain([i \in 1..Len(w.atoms) |-> SpellAtom(w.atoms[i], sep)], w.ops, sep)
        expr == IF w.count = 0 THEN term
                ELSE <<Num(w.count)>> \o sep \o <<Tok("{")>> \o sep \o term \o sep \o <<Tok("}")>>
    IN IF w.labeled THEN expr \o <<Tok("#")>> \o sep \o WrittenLabel ELSE expr

NumberChains(len) ==
    {Written([i \in 1..len |-> NumAtom(ns[i])], ops, 0, FALSE, FALSE) :
        ns \in [1..len -> WrittenNumbers], ops \in [1..(len - 1) -> OperatorChars]}

SubAtoms ==
    UNION {{SubAtom(ns, ops) : ns \in [1..len -> {2, 3}], ops \in [1..(len - 1) -> OperatorChars]} :
            len \in 2..3}

\* A parenthesised chain as the left or as the right operand.
SubChains ==
    {Written(IF left THEN <<s, NumAtom(n)>> ELSE <<NumAtom(n), s>>, <<op>>, 0, FALSE, spaced) :
        s \in SubAtoms, n \in {3, 5}, op \in OperatorChars, left \in BOOLEAN, spaced \in BOOLEAN}

DiceTexts ==
    {Written(<<DiceAtom(d)>>, <<>>, count, labeled, spaced) :
        d \in DiceSpellings, count \in {0, 3}, labeled \in BOOLEAN, spaced \in BOOLEAN}
    \cup {Written(IF left THEN <<DiceAtom(d), NumAtom(2)>> ELSE <<NumAtom(2), DiceAtom(d)>>,
                  <<op>>, 0, labeled, FALSE) :
            d \in DiceSpellings, op \in OperatorChars, left \in BOOLEAN, labeled \in BOOLEAN}

WrittenInputs == UNION {NumberChains(len) : len \in 1..MaxOperands} \cup SubChains \cup DiceTexts

NoParser ==
    [pc |-> "idle", src |-> Written(<<NumAtom(2)>>, <<>>, 0, FALSE, FALSE), text |-> <<>>,
     tree |-> PErr, first |-> PErr, evaluated |-> FALSE, value |-> Ok(0), reparsed |-> FALSE,
     rendered |-> <<>>, again |-> PErr, againExpression |-> PErr]

VARIABLES
    store,        \* client_config table: id -> row, if any
    inserts,      \* id -> number of rows inserted for it
    dbQueue,      \* db_submit: closures waiting for the db_worker
    workerAlive,  \* the db_worker thread has not panicked
    setFailed,    \* the store has rejected a changeset
    loaded,       \* loaded_sender/loaded_receiver: rows on their way to the actor
    inbox,        \* StorageHandle.sender -> receiver: (client, id, op)
    cacheOrder,   \* db_cache keys, most recently used first
    cacheInfo,    \* db_cache entries
    pending,      \* query_cache: id -> ops queued behind its load (<<>> = no key)
    actorAlive,   \* ClientStorage::run has not panicked
    hold,         \* the closure of a db_submit.send(..).await that is suspended
    cpc,          \* client task: "idle" | "wait"
    creply,       \* client task: the reply received for its last op
    cop,          \* client task: the (id, op) of its last call
    via,          \* history: how the last reply was produced, "hit" | "replay"
    touched,      \* history: id -> a mutating op has arrived for it
    loads,        \* history: id -> number of loads the db_worker has run for it
    sent,         \* ops sent so far
    ref,          \* history: id -> entry obtained by applying the ops, in arrival
                  \* order, to an entry loaded from the initial row
    expect,       \* history: client -> reply of its op on ref at arrival
    ev,           \* ClientUtils::eval task of each client
    evals,        \* evals started so far
    acked,        \* history: id -> the prefix of the last SetCommandPrefix eval that
                  \* returned, and whether two such evals of the id have overlapped
    fchan,        \* file-backed actor: Storage.sender -> receiver (unbounded)
    fcache,       \* file-backed actor: Storage.cache
    ffile,        \* file-backed actor: id -> the .cbor file of the id
    floaders,     \* file-backed actor: ids whose spawned load task has not run
    fwrites,      \* file-backed actor: the channel of each write handler
    fcounter,     \* file-backed actor: write_handler_counter
    falive,       \* file-backed actor: handle has not returned
    fpc,          \* file-backed client task: "idle" | "wait" | "panicked"
    freply,       \* file-backed client task: the reply to its last op
    fsent,        \* file-backed ops sent so far
    fref,         \* history: id -> data obtained by applying the ops in arrival
                  \* order to the data loaded from the initial file
    fexpect,      \* history: client -> reply of its op on fref at arrival
    closed,       \* every StorageHandle (sender of the actor's channel) is dropped
    phase,        \* ClientStorage::run : "select" | "drain" | "done"
    workerDone,   \* the db_worker thread has left its loop
    roll,         \* RollExecutor::roll : the job, its evaluator and its timeout flag
    now,          \* tokio's clock, in units of time
    finished,     \* the watch channel of the stop signal
    rngProvider,  \* RngProvider::run and its mpsc channel
    ticker,       \* the reseeding task of start_rng_provider
    executor,     \* the RollExecutor (and its rng_gen sender) is alive
    calls,        \* the calls of RollExecutor::roll, their jobs and timer tasks
    arith,        \* one Calculation or one DiceThrow term: input, throws so far, result
    parser,       \* one text: written, parsed, rendered and parsed again
    run           \* one expression evaluated with the draws of a seed, twice

dbVars == <<store, inserts, dbQueue, workerAlive, setFailed, loaded>>
actorVars == <<inbox, cacheOrder, cacheInfo, pending, actorAlive, hold>>
clientVars == <<cpc, creply, cop, sent>>
histVars == <<ref, expect, touched, loads>>
evalVars == <<ev, evals, acked>>
fileVars == <<fchan, fcache, ffile, floaders, fwrites, fcounter, falive, fpc, freply,
              fsent, fref, fexpect>>
shutVars == <<closed, phase, workerDone>>
execVars == <<now, finished, rngProvider, ticker, executor, calls>>
pureVars == <<arith, parser, run>>
rollVars == <<roll, execVars, pureVars>>
vars == <<dbVars, actorVars, clientVars, via, histVars, evalVars, fileVars, shutVars,
         rollVars>>

\* RollExecutor::new : the provider and the ticker are spawned, no call yet.
ExecInit ==
    /\ now = 0
    /\ finished = [set |-> FALSE, at |-> NoTime]
    /\ rngProvider = [pc |-> "run", inbox |-> <<>>, reseeds |-> 0]
    /\ ticker = [pc |-> "delay", due |-> Period, sent |-> 0, lastSent |-> NoTime]
    /\ executor = TRUE
    /\ calls = [c \in Calls |-> NoCall]

NoPost == [do |-> FALSE, id |-> 1, info |-> BlankInfo]
Post(id, info) == [do |-> TRUE, id |-> id, info |-> info]
NoClosure == [some |-> FALSE, c |-> GetClosure(1)]
Some(c) == [some |-> TRUE, c |-> c]
NoHold == [active |-> FALSE, c |-> GetClosure(1), post |-> NoPost]

\* Rows an existing database may hold for a tenant.
BadListRow == [ClientConfigNew EXCEPT !.roll_prefix = GarbageListText,
                                      !.aliases = MapToJson([n \in AliasNames |-> "e1"])]
BadMapRow == [ClientConfigNew EXCEPT !.aliases = GarbageMapText,
                                     !.roll_prefix = ListToJson(<<"a">>)]
InitialStores ==
    {[i \in Ids |-> IF i = 1 THEN r ELSE NoRow] : r \in {NoRow, Row(BadListRow), Row(BadMapRow)}}

StoredOrDefault(st, id) == IF st[id].present THEN st[id].row ELSE ClientConfigNew

SqlInit ==
    /\ store \in InitialStores
    /\ inserts = [i \in Ids |-> 0]
    /\ dbQueue = <<>>
    /\ workerAlive = TRUE
    /\ setFailed = FALSE
    /\ loaded = <<>>
    /\ inbox = <<>>
    /\ cacheOrder = <<>>
    /\ cacheInfo = [i \in Ids |-> BlankInfo]
    /\ pending = [i \in Ids |-> <<>>]
    /\ actorAlive = TRUE
    /\ hold = NoHold
    /\ cpc = [c \in Clients |-> "idle"]
    /\ creply = [c \in Clients |-> NoReply]
    /\ cop = [c \in Clients |-> [id |-> 1, op |-> Op("none", "", NoExpr, FALSE, <<>>)]]
    /\ via = [c \in Clients |-> "none"]
    /\ loads = [i \in Ids |-> 0]
    /\ touched = [i \in Ids |-> FALSE]
    /\ sent = 0
    /\ ref = [i \in Ids |-> ClientInformationNew(StoredOrDefault(store, i))]
    /\ expect = [c \in Clients |-> NoReply]
    /\ ev = [c \in Clients |-> NoEval]
    /\ evals = 0
    /\ acked = [i \in Ids |-> [s |-> DefaultCommandPrefix, raced |-> FALSE]]
    /\ closed = FALSE
    /\ phase = "select"
    /\ workerDone = FALSE
    /\ roll = NoRoll
    /\ ExecInit

\* Storage::new of the file-backed actor, over the files found on disk.
FileInit(files) ==
    /\ fchan = <<>>
    /\ fcache = [i \in Ids |-> NoEntry]
    /\ ffile = files
    /\ floaders = {}
    /\ fwrites = << <<>> >>
    /\ fcounter = 0
    /\ falive = TRUE
    /\ fpc = [c \in Clients |-> "idle"]
    /\ freply = [c \in Clients |-> NoReply]
    /\ fsent = 0
    /\ fref = [i \in Ids |-> LoadFile(files[i])]
    /\ fexpect = [c \in Clients |-> NoReply]

NoFiles == [i \in Ids |-> NoFile]
InitialFiles ==
    {f \in [Ids -> {NoFile, File(GarbageCbor),
                    File(ToCbor([FileClientInformationNew EXCEPT !.roll_prefix = <<"a">>]))}] :
        \A i \in Ids \ {1} : f[i] = NoFile}

\* Nothing is being evaluated or parsed.
PureInit == arith = NoArith /\ parser = NoParser /\ run = NoRun

Init == SqlInit /\ FileInit(NoFiles) /\ PureInit

(* ------------------------------ clients ------------------------------- *)
\* The ops a client task may send for a tenant.
ClientOps(id) ==
    IF id = 1 THEN
        {Op("GetCommandPrefix", "", NoExpr, FALSE, <<>>),
         Op("SetCommandPrefix", "!!", NoExpr, FALSE, <<>>),
         Op("GetRollPrefixes", "", NoExpr, FALSE, <<>>),
         Op("AddRollPrefix", "a", NoExpr, FALSE, <<>>),
         Op("AddRollPrefix", "b", NoExpr, FALSE, <<>>),
         Op("RemoveRollPrefix", "a", NoExpr, FALSE, <<>>),
         Op("GetAllAlias", "", NoExpr, FALSE, <<>>),
         Op("GetAlias", "x", NoExpr, FALSE, <<>>),
         Op("AddAlias", "x", "e1", FALSE, <<>>),
         Op("AddAlias", "x", "e2", FALSE, <<>>),
         Op("RemoveAlias", "x", NoExpr, FALSE, <<>>),
         Op("GetRollInfo", "", NoExpr, FALSE, <<>>),
         Op("SetRollInfo", "", NoExpr, TRUE, <<>>),
         Op("Get", "", NoExpr, FALSE, <<"x", "x">>)}
    ELSE
        {Op("GetCommandPrefix", "", NoExpr, FALSE, <<>>),
         Op("SetRollInfo", "", NoExpr, TRUE, <<>>)}

Msg(c, id, op) == [client |-> c, id |-> id, op |-> op]

\* What the history records when an op arrives at the actor's channel.
Arrive(c, id, op) ==
    LET r == RunCmd(ref[id], op)
    IN /\ ref' = [ref EXCEPT ![id] = r.client]
       /\ expect' = [expect EXCEPT ![c] = r.reply]
       /\ touched' = [touched EXCEPT ![id] = @ \/ op.type \in MutOpTypes]
       /\ UNCHANGED loads

\* StorageHandle::<op> up to "self.sender.send(..).await": the op enters the
\* actor's bounded channel; the task then awaits the oneshot.
StorageCall(c, id, op) ==
    /\ cpc[c] = "idle"
    /\ ~closed
    /\ actorAlive
    /\ Len(inbox) < InboxSize
    /\ inbox' = Append(inbox, Msg(c, id, op))
    /\ cpc' = [cpc EXCEPT ![c] = "wait"]
    /\ creply' = [creply EXCEPT ![c] = NoReply]
    /\ sent' = sent + 1
    /\ cop' = [cop EXCEPT ![c] = [id |-> id, op |-> op]]
    /\ via' = [via EXCEPT ![c] = "none"]
    /\ Arrive(c, id, op)
    /\ UNCHANGED <<dbVars, cacheOrder, cacheInfo, pending, actorAlive, hold, fileVars, rollVars, shutVars>>

\* A task that uses the StorageHandle directly.
ClientSend(c, id, op) ==
    /\ sent < MaxOps
    /\ StorageCall(c, id, op)
    /\ UNCHANGED evalVars

(* ------------------------------- actor -------------------------------- *)
\* channel.send(reply) for each replayed or executed op: the awaiting task
\* receives it.
Deliver(msgs, replies, how) ==
    /\ via' = [c \in Clients |->
                    IF \E i \in 1..Len(msgs) : msgs[i].client = c THEN how ELSE via[c]]
    /\ creply' = [c \in Clients |->
                    IF \E i \in 1..Len(msgs) : msgs[i].client = c
                    THEN replies[CHOOSE i \in 1..Len(msgs) : msgs[i].client = c]
                    ELSE creply[c]]
    /\ cpc' = [c \in Clients |->
                    IF \E i \in 1..Len(msgs) : msgs[i].client = c THEN "idle" ELSE cpc[c]]

\* The cache after the handler's trailing cache_set, if it has one.
AfterPost(order, info, post) ==
    IF post.do THEN CacheSet(order, info, post.id, post.info)
    ELSE [order |-> order, info |-> info]

\* db_submit.send(closure).await and what follows it in the handler: the send
\* fails when the worker is gone (panic), suspends while the queue is full,
\* and otherwise enqueues.
Submit(order, info, clo, post) ==
    IF ~clo.some THEN
        /\ cacheOrder' = AfterPost(order, info, post).order
        /\ cacheInfo' = AfterPost(order, info, post).info
        /\ UNCHANGED <<dbQueue, actorAlive>>
        /\ hold' = NoHold
    ELSE IF ~workerAlive THEN
        /\ actorAlive' = FALSE
        /\ cacheOrder' = order
        /\ cacheInfo' = info
        /\ hold' = NoHold
        /\ UNCHANGED dbQueue
    ELSE IF Len(dbQueue) < DbQueueSize THEN
        /\ dbQueue' = Append(dbQueue, clo.c)
        /\ cacheOrder' = AfterPost(order, info, post).order
        /\ cacheInfo' = AfterPost(order, info, post).info
        /\ hold' = NoHold
        /\ UNCHANGED actorAlive
    ELSE
        /\ hold' = [active |-> TRUE, c |-> clo.c, post |-> post]
        /\ cacheOrder' = order
        /\ cacheInfo' = info
        /\ UNCHANGED <<dbQueue, actorAlive>>

ActorReady == actorAlive /\ ~hold.active /\ phase # "done"

\* The receiving half of an op's oneshot channel is gone (its task was
\* dropped while awaiting the reply): channel.send(..).unwrap() panics.
Dropped(c) == cpc[c] = "dropped"

\* The ops of a pending queue that are replayed before the first one whose
\* reply cannot be sent.
RECURSIVE Answerable(_)
Answerable(msgs) ==
    IF msgs = <<>> \/ Dropped(Head(msgs).client) THEN <<>>
    ELSE <<Head(msgs)>> \o Answerable(Tail(msgs))

\* select! branch "rcv = loaded_receiver.recv()" (polled first: biased).
ActorRecvLoaded ==
    /\ ActorReady
    /\ loaded # <<>>
    /\ LET id == Head(loaded).id
           info == ClientInformationNew(Head(loaded).config)
           rep == Replay(info, pending[id])
           set == GlobalSet(id, rep.client)
           ok == Answerable(pending[id])
       IN /\ loaded' = Tail(loaded)
          /\ pending' = [pending EXCEPT ![id] = <<>>]
          /\ IF ok # pending[id]
             THEN /\ Deliver(ok, Replay(info, ok).replies, "replay")
                  /\ actorAlive' = FALSE
                  /\ UNCHANGED <<cacheOrder, cacheInfo, dbQueue, hold>>
             ELSE /\ Deliver(pending[id], rep.replies, "replay")
                  /\ IF rep.wb
                     THEN Submit(cacheOrder, cacheInfo, Some(set.closure),
                                 Post(id, set.config))
                     ELSE Submit(cacheOrder, cacheInfo, NoClosure, Post(id, rep.client))
    /\ UNCHANGED <<store, inserts, workerAlive, setFailed, inbox, cop, sent, histVars,
                   evalVars, fileVars, rollVars, shutVars>>

\* select! branch "rcv = self.receiver.recv()", entry cached.
ActorRecvHit ==
    /\ ActorReady
    /\ phase = "select"
    /\ loaded = <<>>
    /\ inbox # <<>>
    /\ InCache(cacheOrder, Head(inbox).id)
    /\ LET m == Head(inbox)
           r == RunCmd(cacheInfo[m.id], m.op)
           set == GlobalSet(m.id, r.client)
           order == CacheGetMut(cacheOrder, m.id)
       IN /\ inbox' = Tail(inbox)
          /\ IF Dropped(m.client)
             THEN /\ actorAlive' = FALSE
                  /\ cacheOrder' = order
                  /\ cacheInfo' = [cacheInfo EXCEPT ![m.id] = r.client]
                  /\ UNCHANGED <<dbQueue, hold, cpc, creply, via>>
             ELSE /\ Deliver(<<m>>, <<r.reply>>, "hit")
                  /\ IF r.wb
                     THEN Submit(order, [cacheInfo EXCEPT ![m.id] = set.config],
                                 Some(set.closure), NoPost)
                     ELSE Submit(order, [cacheInfo EXCEPT ![m.id] = r.client],
                                 NoClosure, NoPost)
    /\ UNCHANGED <<store, inserts, workerAlive, setFailed, loaded, pending, cop, sent, histVars,
                   evalVars, fileVars, rollVars, shutVars>>

\* select! branch "rcv = self.receiver.recv()", entry not cached: queue the op
\* behind the load in flight, or start the load.
ActorRecvMiss ==
    /\ ActorReady
    /\ phase = "select"
    /\ loaded = <<>>
    /\ inbox # <<>>
    /\ ~InCache(cacheOrder, Head(inbox).id)
    /\ LET m == Head(inbox)
       IN /\ inbox' = Tail(inbox)
          /\ pending' = [pending EXCEPT ![m.id] = Append(@, m)]
          /\ IF pending[m.id] # <<>>
             THEN Submit(cacheOrder, cacheInfo, NoClosure, NoPost)
             ELSE Submit(cacheOrder, cacheInfo, Some(GetClosure(m.id)), NoPost)
    /\ UNCHANGED <<store, inserts, workerAlive, setFailed, loaded, clientVars, via, histVars,
                   evalVars, fileVars, rollVars, shutVars>>

\* A suspended db_submit.send(..).await completes (room in the queue) or
\* fails (worker gone); the handler then runs to its end.
ActorResume ==
    /\ actorAlive
    /\ hold.active
    /\ ~workerAlive \/ Len(dbQueue) < DbQueueSize
    /\ Submit(cacheOrder, cacheInfo, Some(hold.c), hold.post)
    /\ UNCHANGED <<store, inserts, workerAlive, setFailed, loaded, inbox, pending,
                   clientVars, via, histVars, evalVars, fileVars, rollVars, shutVars>>

(* ------------------------------ db_worker ----------------------------- *)
\* The closure built by GlobalStorage::get: find the row, insert the default
\* row when there is none, send the row to the actor. The send's unwrap
\* panics when the actor is gone.
WorkerExecGet ==
    /\ workerAlive
    /\ ~workerDone
    /\ dbQueue # <<>>
    /\ Head(dbQueue).kind = "get"
    /\ LET id == Head(dbQueue).id
       IN /\ store' = [store EXCEPT ![id] = Row(StoredOrDefault(store, id))]
          /\ inserts' = [inserts EXCEPT ![id] = IF store[id].present THEN @ ELSE @ + 1]
          /\ IF actorAlive /\ phase # "done"
             THEN /\ loaded' = Append(loaded,
                                      [id |-> id, config |-> StoredOrDefault(store, id)])
                  /\ dbQueue' = Tail(dbQueue)
                  /\ UNCHANGED workerAlive
             ELSE /\ workerAlive' = FALSE
                  /\ dbQueue' = <<>>
                  /\ UNCHANGED loaded
    /\ loads' = [loads EXCEPT ![Head(dbQueue).id] = @ + 1]
    /\ UNCHANGED <<setFailed, actorVars, clientVars, via, ref, expect, touched,
                   evalVars, fileVars, rollVars, shutVars>>

\* An update with no column to set cannot be built: execute returns Err.
MustFail(change) == ChangeFields(change) = {}

\* The closure built by GlobalStorage::set: update the row; unwrap panics the
\* thread when execute returns Err, and the queue is dropped with it.
WorkerExecSet(fail) ==
    /\ workerAlive
    /\ ~workerDone
    /\ dbQueue # <<>>
    /\ Head(dbQueue).kind = "set"
    /\ MustFail(Head(dbQueue).change) => fail
    /\ LET id == Head(dbQueue).id
       IN IF fail
          THEN /\ workerAlive' = FALSE
               /\ setFailed' = TRUE
               /\ dbQueue' = <<>>
               /\ UNCHANGED store
          ELSE /\ store' = [store EXCEPT ![id] =
                              IF @.present THEN Row(ApplyChange(@.row, Head(dbQueue).change))
                              ELSE @]
               /\ dbQueue' = Tail(dbQueue)
               /\ UNCHANGED <<workerAlive, setFailed>>
    /\ UNCHANGED <<inserts, loaded, actorVars, clientVars, via, histVars,
                   evalVars, fileVars, rollVars, shutVars>>

(* -------------------------------- eval -------------------------------- *)
\* The messages an adapter may hand to eval for a tenant.
EvalTexts(id) ==
    IF id = 1 THEN
        {<<"!!", "h">>, <<"rrb!", "cp", "s", "!!">>, <<"rrb!", "rp", "a", "a">>,
         <<"rrb!", "a", "a", "x", "e1">>, <<"rrb!", "a", "l">>, <<"rrb!", "ri", "s", "t">>,
         <<"a", "e1">>, <<"roll", "$x", "$y">>, <<"!!", "cp", "s", "rrb!">>}
    ELSE
        {<<"rrb!", "ri", "s", "t">>}

\* eval is called: parse sends StorageOps::Get with the candidate names and
\* awaits the bundle.
EvalStart(c, id, text) ==
    /\ ev[c].pc \in {"idle", "done"}
    /\ evals < MaxEvals
    /\ StorageCall(c, id, Op("Get", "", NoExpr, FALSE, Candidates(text)))
    /\ ev' = [ev EXCEPT ![c] = [NoEval EXCEPT !.pc = "parse", !.id = id, !.text = text]]
    /\ evals' = evals + 1
    /\ UNCHANGED acked

\* The bundle has arrived: parse finishes, eval matches on the command,
\* calls check_permission() where the arm has it, and either returns or
\* goes on to a storage call. perm is the answer of check_permission().
EvalParsed(c, perm) ==
    /\ ev[c].pc = "parse"
    /\ cpc[c] = "idle"
    /\ LET bundle == creply[c]
           cmd == Parse(ev[c].text, bundle)
           e0 == [ev[c] EXCEPT !.cmd = cmd, !.prefix = bundle.s, !.roll_info = bundle.b]
       IN ev' = [ev EXCEPT ![c] =
            IF cmd.type = "None"
                THEN [e0 EXCEPT !.pc = "done", !.result = Res("None", "", NoReply, <<>>, FALSE)]
            ELSE IF cmd.type \in GatedCommandTypes
                THEN IF perm
                     THEN [e0 EXCEPT !.asked = TRUE, !.perm = TRUE, !.pc = "call"]
                     ELSE [e0 EXCEPT !.asked = TRUE, !.perm = FALSE, !.pc = "done",
                                     !.result = Res("InsufficentPermission", "", NoReply,
                                                    <<>>, FALSE)]
            ELSE IF cmd.type \in CallCommandTypes
                THEN [e0 EXCEPT !.pc = "call"]
            ELSE [e0 EXCEPT !.pc = "done",
                            !.result = ImmediateResult(cmd, bundle.s, bundle.b)]]
    /\ UNCHANGED <<dbVars, actorVars, clientVars, via, histVars, evals, acked, fileVars, rollVars,
                   shutVars>>

\* A SetCommandPrefix eval of the id has sent its op and has not returned.
SetInFlight(id) ==
    {d \in Clients : ev[d].id = id /\ ev[d].cmd.type = "SetCommandPrefix"
                                  /\ ev[d].pc = "wait"}

\* self.store.<op>(id, ..) : the op enters the actor's channel.
EvalCall(c) ==
    /\ ev[c].pc = "call"
    /\ StorageCall(c, ev[c].id, OpOf(ev[c].cmd))
    /\ ev' = [ev EXCEPT ![c].pc = "wait"]
    /\ acked' = [acked EXCEPT ![ev[c].id].raced =
                    @ \/ (ev[c].cmd.type = "SetCommandPrefix" /\ SetInFlight(ev[c].id) # {})]
    /\ UNCHANGED evals

\* The storage call returns; AddAlias unwraps the reply.
EvalReturn(c) ==
    /\ ev[c].pc = "wait"
    /\ cpc[c] = "idle"
    /\ ev' = [ev EXCEPT ![c] =
            IF ev[c].cmd.type = "AddAlias" /\ creply[c].t = "Err"
            THEN [@ EXCEPT !.pc = "panicked"]
            ELSE [@ EXCEPT !.pc = "done", !.result = CallResult(ev[c].cmd, creply[c])]]
    /\ acked' = IF ev[c].cmd.type = "SetCommandPrefix"
                THEN [acked EXCEPT ![ev[c].id].s = ev[c].cmd.s]
                ELSE acked
    /\ UNCHANGED <<dbVars, actorVars, clientVars, via, histVars, evals, fileVars, rollVars, shutVars>>

(* ------------------------ file-backed storage ------------------------- *)
\* The ops a task may send to the file-backed actor for a tenant.
FileOps(id) ==
    IF id = 1 THEN
        {Op("GetCommandPrefix", "", NoExpr, FALSE, <<>>),
         Op("SetCommandPrefix", "!!", NoExpr, FALSE, <<>>),
         Op("GetRollPrefixes", "", NoExpr, FALSE, <<>>),
         Op("AddRollPrefix", "a", NoExpr, FALSE, <<>>),
         Op("RemoveRollPrefix", "a", NoExpr, FALSE, <<>>),
         Op("GetAllAlias", "", NoExpr, FALSE, <<>>),
         Op("GetAlias", "x", NoExpr, FALSE, <<>>),
         Op("AddAlias", "x", "e1", FALSE, <<>>),
         Op("RemoveAlias", "x", NoExpr, FALSE, <<>>)}
    ELSE
        {Op("GetCommandPrefix", "", NoExpr, FALSE, <<>>),
         Op("SetCommandPrefix", "!!", NoExpr, FALSE, <<>>)}

sqlVars == <<dbVars, actorVars, clientVars, via, histVars, evalVars, shutVars>>

\* StorageHandle::<op> : send on the unbounded channel (unwrap panics when
\* the actor has gone), then await the oneshot.
FileClientSend(c, id, op) ==
    /\ fpc[c] = "idle"
    /\ fsent < MaxOps
    /\ fsent' = fsent + 1
    /\ IF falive
       THEN LET r == FileRunOp(fref[id], op)
            IN /\ fchan' = Append(fchan, FileOpMsg(c, id, op))
               /\ fpc' = [fpc EXCEPT ![c] = "wait"]
               /\ freply' = [freply EXCEPT ![c] = NoReply]
               /\ fref' = [fref EXCEPT ![id] = r.data]
               /\ fexpect' = [fexpect EXCEPT ![c] = r.reply]
       ELSE /\ fpc' = [fpc EXCEPT ![c] = "panicked"]
            /\ UNCHANGED <<fchan, freply, fref, fexpect>>
    /\ UNCHANGED <<fcache, ffile, floaders, fwrites, fcounter, falive, sqlVars, rollVars>>

FileReady == falive /\ fchan # <<>>

\* handle, SetClientInfo arm: the entry becomes Available and the ops of the
\* Waiting list are sent to the actor's own channel again.
FileRecvSetClientInfo ==
    /\ FileReady
    /\ Head(fchan).kind = "SetClientInfo"
    /\ LET m == Head(fchan)
           counter == (fcounter + 1) % CounterModulus
           writers == IF counter = 0 THEN Append(fwrites, <<>>) ELSE fwrites
       IN /\ fcounter' = counter
          /\ fwrites' = writers
          /\ fcache' = [fcache EXCEPT ![m.id] = Available(m.info, Len(writers))]
          /\ fchan' = Tail(fchan) \o (IF fcache[m.id].state = "Waiting"
                                      THEN fcache[m.id].waiting ELSE <<>>)
    /\ UNCHANGED <<ffile, floaders, falive, fpc, freply, fsent, fref, fexpect, sqlVars, rollVars>>

\* handle, an op for an id without an entry: Storage::load.
FileRecvLoad ==
    /\ FileReady
    /\ Head(fchan).kind = "op"
    /\ fcache[Head(fchan).id].state = "None"
    /\ fcache' = [fcache EXCEPT ![Head(fchan).id] = Waiting(<<Head(fchan)>>)]
    /\ floaders' = floaders \cup {Head(fchan).id}
    /\ fchan' = Tail(fchan)
    /\ UNCHANGED <<ffile, fwrites, fcounter, falive, fpc, freply, fsent, fref, fexpect,
                   sqlVars, rollVars>>

\* handle, an op for an id that is being loaded: vec.push(op).
FileRecvWaiting ==
    /\ FileReady
    /\ Head(fchan).kind = "op"
    /\ fcache[Head(fchan).id].state = "Waiting"
    /\ fcache' = [fcache EXCEPT ![Head(fchan).id].waiting = Append(@, Head(fchan))]
    /\ fchan' = Tail(fchan)
    /\ UNCHANGED <<ffile, floaders, fwrites, fcounter, falive, fpc, freply, fsent, fref,
                   fexpect, sqlVars, rollVars>>

\* handle, an op for an Available entry. When the arm returns, the actor
\* and its channel are dropped and every task still awaiting a reply panics.
FileRecvAvailable ==
    /\ FileReady
    /\ Head(fchan).kind = "op"
    /\ fcache[Head(fchan).id].state = "Available"
    /\ LET m == Head(fchan)
           entry == fcache[m.id]
           r == FileRunOp(entry.data, m.op)
       IN /\ r.write => Len(fwrites[entry.writer]) < WriteHandlerQueueSize
          /\ fcache' = [fcache EXCEPT ![m.id].data = r.data]
          /\ fwrites' = IF r.write
                        THEN [fwrites EXCEPT ![entry.writer] =
                                  Append(@, [id |-> m.id, value |-> r.data])]
                        ELSE fwrites
          /\ freply' = [freply EXCEPT ![m.client] = r.reply]
          /\ falive' = ~r.ret
          /\ fchan' = IF r.ret THEN <<>> ELSE Tail(fchan)
          /\ fpc' = [c \in Clients |->
                        IF c = m.client THEN "idle"
                        ELSE IF r.ret /\ fpc[c] = "wait" THEN "panicked"
                        ELSE fpc[c]]
    /\ UNCHANGED <<ffile, floaders, fcounter, fsent, fref, fexpect, sqlVars, rollVars>>

\* The task spawned by Storage::load: read and parse the file, post the
\* result on the actor's channel (unwrap panics when the actor has gone).
FileLoaderRun(id) ==
    /\ id \in floaders
    /\ floaders' = floaders \ {id}
    /\ fchan' = IF falive THEN Append(fchan, SetClientInfo(id, LoadFile(ffile[id])))
                ELSE fchan
    /\ UNCHANGED <<fcache, ffile, fwrites, fcounter, falive, fpc, freply, fsent, fref,
                   fexpect, sqlVars, rollVars>>

\* The task of create_write_handler: serialize and write; a failed write is
\* logged and the value dropped.
FileWriterRun(w, fail) ==
    /\ w \in 1..Len(fwrites)
    /\ fwrites[w] # <<>>
    /\ fwrites' = [fwrites EXCEPT ![w] = Tail(@)]
    /\ ffile' = IF fail THEN ffile
                ELSE [ffile EXCEPT ![Head(fwrites[w]).id] = File(ToCbor(Head(fwrites[w]).value))]
    /\ UNCHANGED <<fchan, fcache, floaders, fcounter, falive, fpc, freply, fsent, fref,
                   fexpect, sqlVars, rollVars>>

(* ------------------------------ shutdown ------------------------------ *)
\* Every StorageHandle is dropped and ClientUtilsBuilder::wait drops its
\* Arc<GlobalStorage>. A handle method borrows its handle while it awaits
\* the reply, so the tasks still awaiting one are dropped with their oneshot
\* receivers.
Close ==
    /\ ~closed
    /\ closed' = TRUE
    /\ cpc' = [c \in Clients |-> IF cpc[c] = "wait" THEN "dropped" ELSE cpc[c]]
    /\ UNCHANGED <<dbVars, actorVars, creply, cop, sent, via, histVars, evalVars, fileVars, rollVars,
                   phase, workerDone>>

\* select! : nothing loaded, self.receiver.recv() returns None (channel
\* empty, no sender left): break, drop(loaded_sender).
ActorRecvClosed ==
    /\ ActorReady
    /\ phase = "select"
    /\ loaded = <<>>
    /\ inbox = <<>>
    /\ closed
    /\ phase' = "drain"
    /\ UNCHANGED <<dbVars, actorVars, clientVars, via, histVars, evalVars, fileVars, rollVars,
                   closed, workerDone>>

\* A clone of loaded_sender is alive: a get closure waits in the db queue.
LoadInFlight == \E i \in 1..Len(dbQueue) : dbQueue[i].kind = "get"

\* The second loop of run: loaded_receiver.recv() returns None once no get
\* closure is left; run returns and the actor's Arc<GlobalStorage> is
\* dropped.
ActorDrainEnd ==
    /\ ActorReady
    /\ phase = "drain"
    /\ loaded = <<>>
    /\ ~LoadInFlight
    /\ phase' = "done"
    /\ UNCHANGED <<dbVars, actorVars, clientVars, via, histVars, evalVars, fileVars, rollVars,
                   closed, workerDone>>

\* db_submit has no sender left: the builder has dropped its Arc and the
\* actor has returned or panicked.
QueueClosed == closed /\ (phase = "done" \/ ~actorAlive)

\* db_worker : blocking_recv returns None on the closed, empty queue: break.
WorkerExit ==
    /\ workerAlive
    /\ ~workerDone
    /\ QueueClosed
    /\ dbQueue = <<>>
    /\ workerDone' = TRUE
    /\ UNCHANGED <<dbVars, actorVars, clientVars, via, histVars, evalVars, fileVars, rollVars,
                   closed, phase>>

Next ==
    \/ \E c \in Clients, id \in Ids : \E op \in ClientOps(id) : ClientSend(c, id, op)
    \/ ActorRecvLoaded
    \/ ActorRecvHit
    \/ ActorRecvMiss
    \/ ActorResume
    \/ WorkerExecGet
    \/ \E fail \in BOOLEAN : WorkerExecSet(fail)

Spec == Init /\ [][Next]_vars

\* The ops of the fairly scheduled system: a read, mutations of three
\* fields, and the ops that reply Err (AddRollPrefix of a prefix that is
\* there, RemoveRollPrefix and RemoveAlias of what is not).
FairOps(id) ==
    IF id = 1 THEN
        {Op("GetCommandPrefix", "", NoExpr, FALSE, <<>>),
         Op("SetCommandPrefix", "!!", NoExpr, FALSE, <<>>),
         Op("AddRollPrefix", "a", NoExpr, FALSE, <<>>),
         Op("RemoveRollPrefix", "a", NoExpr, FALSE, <<>>),
         Op("RemoveAlias", "x", NoExpr, FALSE, <<>>)}
    ELSE
        {Op("GetCommandPrefix", "", NoExpr, FALSE, <<>>),
         Op("SetRollInfo", "", NoExpr, TRUE, <<>>)}

\* The actor is a task of the runtime and the db_worker a thread of its own:
\* neither waits forever with a step to take.
ActorStep == ActorRecvLoaded \/ ActorRecvHit \/ ActorRecvMiss \/ ActorResume
WorkerStep == WorkerExecGet \/ \E fail \in BOOLEAN : WorkerExecSet(fail)

NextFair ==
    \/ \E c \in Clients, id \in Ids : \E op \in FairOps(id) : ClientSend(c, id, op)
    \/ ActorRecvLoaded
    \/ ActorRecvHit
    \/ ActorRecvMiss
    \/ ActorResume
    \/ WorkerExecGet
    \/ \E fail \in BOOLEAN : WorkerExecSet(fail)

SpecFair == Init /\ [][NextFair]_vars /\ WF_vars(ActorStep) /\ WF_vars(WorkerStep)

\* The storage actor driven through ClientUtils::eval.
NextEval ==
    \/ \E c \in Clients, id \in Ids : \E text \in EvalTexts(id) : EvalStart(c, id, text)
    \/ \E c \in Clients, perm \in BOOLEAN : EvalParsed(c, perm)
    \/ \E c \in Clients : EvalCall(c)
    \/ \E c \in Clients : EvalReturn(c)
    \/ ActorRecvLoaded
    \/ ActorRecvHit
    \/ ActorRecvMiss
    \/ ActorResume
    \/ WorkerExecGet
    \/ \E fail \in BOOLEAN : WorkerExecSet(fail)

SpecEval == Init /\ [][NextEval]_vars

\* The storage actor and the db_worker through shutdown.
NextShutdown ==
    \/ \E c \in Clients, id \in Ids : \E op \in ClientOps(id) : ClientSend(c, id, op)
    \/ ActorRecvLoaded
    \/ ActorRecvHit
    \/ ActorRecvMiss
    \/ ActorResume
    \/ WorkerExecGet
    \/ \E fail \in BOOLEAN : WorkerExecSet(fail)
    \/ Close
    \/ ActorRecvClosed
    \/ ActorDrainEnd
    \/ WorkerExit

SpecShutdown == Init /\ [][NextShutdown]_vars

\* The file-backed storage actor of bot-utils/src/storage.rs.
InitFile ==
    /\ SqlInit
    /\ store = [i \in Ids |-> NoRow]
    /\ \E files \in InitialFiles : FileInit(files)
    /\ PureInit

NextFile ==
    \/ \E c \in Clients, id \in Ids : \E op \in FileOps(id) : FileClientSend(c, id, op)
    \/ FileRecvSetClientInfo
    \/ FileRecvLoad
    \/ FileRecvWaiting
    \/ FileRecvAvailable
    \/ \E id \in Ids : FileLoaderRun(id)
    \/ \E w \in 1..Len(fwrites), fail \in BOOLEAN : FileWriterRun(w, fail)

SpecFile == InitFile /\ [][NextFile]_vars

(* ----------------------------- run_cmd alone -------------------------- *)
\* Sequences over a set, up to a length.
SeqsUpTo(S, n) == UNION {[1..k -> S] : k \in 0..n}

\* Roll-prefix lists without duplicates, as a well-formed row stores them.
NoDuplicates(l) == \A i, j \in 1..Len(l) : i # j => l[i] # l[j]
StoredLists == {l \in SeqsUpTo(RollPrefixes, Cardinality(RollPrefixes)) : NoDuplicates(l)}

\* The well-formed rows a tenant may have in client_config.
StoredRows ==
    {[command_prefix |-> p, roll_prefix |-> ListToJson(l), aliases |-> MapToJson(m),
      roll_info |-> b] :
        p \in CommandPrefixes \cup {"a"}, l \in StoredLists,
        m \in [AliasNames -> Exprs \cup {NoExpr}], b \in BOOLEAN}

\* Candidate names: the alias names and a text that is no alias name.
CandidateLists == SeqsUpTo(AliasNames \cup {"(text)"}, MaxCandidates)

\* The ops run_cmd is applied to.
RunCmdOps ==
    {Op("AddRollPrefix", p, NoExpr, FALSE, <<>>) : p \in RollPrefixes}
    \cup {Op("RemoveRollPrefix", p, NoExpr, FALSE, <<>>) : p \in RollPrefixes}
    \cup {Op("Get", "", NoExpr, FALSE, names) : names \in CandidateLists}
    \cup {Op("GetRollPrefixes", "", NoExpr, FALSE, <<>>),
          Op("AddAlias", "x", "e2", FALSE, <<>>),
          Op("RemoveAlias", "y", NoExpr, FALSE, <<>>)}

\* Tenant 1 has a stored row and has been loaded into db_cache.
InitRunCmd ==
    /\ \E r \in StoredRows :
        /\ store = [i \in Ids |-> IF i = 1 THEN Row(r) ELSE NoRow]
        /\ cacheInfo = [i \in Ids |-> IF i = 1 THEN ClientInformationNew(r) ELSE BlankInfo]
        /\ ref = [i \in Ids |-> ClientInformationNew(StoredOrDefault(store, i))]
    /\ cacheOrder = <<1>>
    /\ loads = [i \in Ids |-> IF i = 1 THEN 1 ELSE 0]
    /\ inserts = [i \in Ids |-> 0]
    /\ dbQueue = <<>>
    /\ workerAlive = TRUE
    /\ setFailed = FALSE
    /\ loaded = <<>>
    /\ inbox = <<>>
    /\ pending = [i \in Ids |-> <<>>]
    /\ actorAlive = TRUE
    /\ hold = NoHold
    /\ cpc = [c \in Clients |-> "idle"]
    /\ creply = [c \in Clients |-> NoReply]
    /\ cop = [c \in Clients |-> [id |-> 1, op |-> Op("none", "", NoExpr, FALSE, <<>>)]]
    /\ via = [c \in Clients |-> "none"]
    /\ touched = [i \in Ids |-> FALSE]
    /\ sent = 0
    /\ expect = [c \in Clients |-> NoReply]
    /\ ev = [c \in Clients |-> NoEval]
    /\ evals = 0
    /\ acked = [i \in Ids |-> [s |-> DefaultCommandPrefix, raced |-> FALSE]]
    /\ closed = FALSE
    /\ phase = "select"
    /\ workerDone = FALSE
    /\ roll = NoRoll
    /\ ExecInit
    /\ FileInit(NoFiles)
    /\ PureInit

\* run_cmd(client, op) on the cached entry of tenant 1: the entry is
\* changed in place and the reply goes to the op's channel (task 1).
RunCmdStep(op) ==
    /\ sent < MaxRunCmds
    /\ LET r == RunCmd(cacheInfo[1], op)
       IN /\ cacheInfo' = [cacheInfo EXCEPT ![1] = r.client]
          /\ creply' = [creply EXCEPT ![1] = r.reply]
          /\ via' = [via EXCEPT ![1] = IF r.wb THEN "wb" ELSE "no wb"]
    /\ cop' = [cop EXCEPT ![1] = [id |-> 1, op |-> op]]
    /\ sent' = sent + 1
    /\ UNCHANGED <<dbVars, inbox, cacheOrder, pending, actorAlive, hold, cpc, histVars,
                   evalVars, fileVars, rollVars, shutVars>>

NextRunCmd == \E op \in RunCmdOps : RunCmdStep(op)

SpecRunCmd == InitRunCmd /\ [][NextRunCmd]_vars

(* ------------------------ parse and eval alone ------------------------ *)
\* What may follow the first token of a message.
Remainders ==
    {<<>>, <<"h">>, <<"h", "x">>, <<"rh">>, <<"i">>, <<Blank, "info", Blank>>,
     <<"cp", "g">>, <<"cp", "g", Blank>>, <<"cp", "s", "!!">>, <<"cp", "s", "a">>,
     <<"cp", "s">>, <<"cp", "s", "$x">>, <<"cp", "s", "x<U+200B>y">>,
     <<"rp", "l">>, <<"rp", "a", "c">>, <<"rp", "a">>, <<"rp", "add">>,
     <<"rp", "a", "$y">>, <<"rp", "a", "x<U+200B>y">>, <<"rp", "r", "a">>, <<"rp", "r">>,
     <<"a", "a", "x", "e1">>, <<"a", "a", "y", "e2">>, <<"a", "a", "$x", "e1">>,
     <<"a", "a", "x<U+200B>y", "e1">>, <<"a", "a", "e1">>, <<"a", "r", "x">>,
     <<"a", "r">>, <<"a", "l">>, <<"ri", "g">>, <<"ri", "s", "t">>, <<"ri", "s", "f">>,
     <<"r", "e1">>, <<"roll", "e2", Blank>>, <<"e1">>, <<Blank, "e2", Blank>>,
     <<"e1", "e2">>, <<"$x">>, <<"e1", "$y">>, <<"x">>}

\* The messages parse is applied to.
ParseTexts ==
    {<<p>> \o r : p \in CommandPrefixes \cup {"a", "b"}, r \in Remainders}
    \cup {<<>>, <<"x">>, <<"y">>, <<Blank, "x", Blank>>, <<"x", Blank>>, <<Blank, "y">>,
          <<Blank>>, <<"e1">>, <<"$x", "$y", "$x">>, <<"roll", "$y", "e1", "$x">>,
          <<Blank, "rrb!", "h">>, <<"x", "$y">>, <<"$x", BareDollar, Blank, "$y">>}

\* commands::parse on the cached entry of tenant 1, followed by eval's match
\* up to the storage call of the arm (check_permission() answers true).
ParseStep(text) ==
    /\ ev[1].pc \in {"idle", "done"}
    /\ evals < MaxParses
    /\ LET get == Op("Get", "", NoExpr, FALSE, Candidates(text))
           r == RunCmd(cacheInfo[1], get)
           cmd == Parse(text, r.reply)
           e0 == [NoEval EXCEPT !.text = text, !.cmd = cmd, !.prefix = r.reply.s,
                                !.roll_info = r.reply.b]
       IN /\ cop' = [cop EXCEPT ![1] = [id |-> 1, op |-> get]]
          /\ creply' = [creply EXCEPT ![1] = r.reply]
          /\ cacheInfo' = [cacheInfo EXCEPT ![1] = r.client]
          /\ ev' = [ev EXCEPT ![1] =
                IF cmd.type = "None"
                    THEN [e0 EXCEPT !.pc = "done",
                                    !.result = Res("None", "", NoReply, <<>>, FALSE)]
                ELSE IF cmd.type \in CallCommandTypes
                    THEN [e0 EXCEPT !.pc = "call", !.perm = TRUE,
                                    !.asked = cmd.type \in GatedCommandTypes]
                ELSE [e0 EXCEPT !.pc = "done",
                                !.result = ImmediateResult(cmd, r.reply.s, r.reply.b)]]
    /\ evals' = evals + 1
    /\ sent' = sent + 1
    /\ UNCHANGED <<dbVars, inbox, cacheOrder, pending, actorAlive, hold, cpc, via, histVars,
                   acked, fileVars, rollVars, shutVars>>

\* The storage call of eval's arm, run_cmd applied to the cached entry.
StoreStep ==
    /\ ev[1].pc = "call"
    /\ LET op == OpOf(ev[1].cmd)
           r == RunCmd(cacheInfo[1], op)
       IN /\ cop' = [cop EXCEPT ![1] = [id |-> 1, op |-> op]]
          /\ creply' = [creply EXCEPT ![1] = r.reply]
          /\ cacheInfo' = [cacheInfo EXCEPT ![1] = r.client]
          /\ ev' = [ev EXCEPT ![1] =
                IF ev[1].cmd.type = "AddAlias" /\ r.reply.t = "Err"
                THEN [@ EXCEPT !.pc = "panicked"]
                ELSE [@ EXCEPT !.pc = "done", !.result = CallResult(ev[1].cmd, r.reply)]]
    /\ sent' = sent + 1
    /\ UNCHANGED <<dbVars, inbox, cacheOrder, pending, actorAlive, hold, cpc, via, histVars,
                   evals, acked, fileVars, rollVars, shutVars>>

NextParse ==
    \/ \E text \in ParseTexts : ParseStep(text)
    \/ StoreStep

SpecParse == InitRunCmd /\ [][NextParse]_vars

(* ------------------------------ roll job ------------------------------ *)
\* The leaf the evaluator is at.
AtLeaf(kind) ==
    /\ roll.pc = "run"
    /\ roll.leaf <= Len(roll.expr.term.leaves)
    /\ roll.expr.term.leaves[roll.leaf].kind = kind

\* pool.execute picks the job up: the start time goes to the timer task and
\* evaluate is called.
RollStart(e) ==
    /\ roll.pc = "idle"
    /\ roll' = [NoRoll EXCEPT !.pc = "run", !.expr = e]
    /\ UNCHANGED <<dbVars, actorVars, clientVars, via, histVars, evalVars, fileVars, shutVars,
                   execVars, pureVars>>

\* The timer task: sleep_until(start + timeout), then timeout_signal.store(true).
TimerFires ==
    /\ roll.pc = "run"
    /\ ~roll.flag
    /\ roll' = [roll EXCEPT !.flag = TRUE]
    /\ UNCHANGED <<dbVars, actorVars, clientVars, via, histVars, evalVars, fileVars, shutVars,
                   execVars, pureVars>>

\* Term::Constant : the value, no look at the flag.
ConstEval ==
    /\ AtLeaf("const")
    /\ roll' = [roll EXCEPT !.leaf = @ + 1]
    /\ UNCHANGED <<dbVars, actorVars, clientVars, via, histVars, evalVars, fileVars, shutVars,
                   execVars, pureVars>>

\* Dice::evaluate, entry: "if timeout_f() { return Err(Timeout) }".
DiceEnter ==
    /\ AtLeaf("dice")
    /\ ~roll.entered
    /\ roll' = IF roll.flag THEN Returned(Polled(roll, TRUE), "Timeout")
               ELSE [Polled(roll, FALSE) EXCEPT !.entered = TRUE, !.throw = 0, !.counter = 0]
    /\ UNCHANGED <<dbVars, actorVars, clientVars, via, histVars, evalVars, fileVars, shutVars,
                   execVars, pureVars>>

\* Dice::evaluate, one pass of "for _ in 0..self.throws"; the loop ends
\* after the last throw.
DiceThrow ==
    /\ AtLeaf("dice")
    /\ roll.entered
    /\ LET c == WrappingAdd(roll.counter)
           n == roll.expr.term.leaves[roll.leaf].throws
           r == IF c = 0 THEN Polled(roll, roll.flag) ELSE roll
       IN roll' =
            IF c = 0 /\ roll.flag THEN Returned(Further(r), "Timeout")
            ELSE IF roll.throw + 1 = n
            THEN [Thrown(r) EXCEPT !.counter = c, !.throw = 0, !.entered = FALSE,
                                   !.leaf = @ + 1]
            ELSE [Thrown(r) EXCEPT !.counter = c, !.throw = @ + 1]
    /\ UNCHANGED <<dbVars, actorVars, clientVars, via, histVars, evalVars, fileVars, shutVars,
                   execVars, pureVars>>

\* The term is evaluated: its Calculation may end with an error; otherwise
\* Expression::evaluate pushes the result and goes to the next pass of
\* "for _ in 0..size", or returns.
TermEnd ==
    /\ roll.pc = "run"
    /\ roll.leaf > Len(roll.expr.term.leaves)
    /\ roll' =
        IF roll.expr.term.err # "none" THEN Returned(roll, roll.expr.term.err)
        ELSE IF roll.iter + 1 = roll.expr.count THEN Returned(Further(roll), "Ok")
        ELSE [Further(roll) EXCEPT !.iter = @ + 1, !.leaf = 1]
    /\ UNCHANGED <<dbVars, actorVars, clientVars, via, histVars, evalVars, fileVars, shutVars,
                   execVars, pureVars>>

NextRoll ==
    \/ \E e \in RollExprs : RollStart(e)
    \/ TimerFires
    \/ ConstEval
    \/ DiceEnter
    \/ DiceThrow
    \/ TermEnd

SpecRoll == Init /\ [][NextRoll]_vars

(* ---------------------------- roll executor --------------------------- *)
\* The ticker still holds its clone of the sender.
TickerHoldsSender == ticker.pc \in {"delay", "tick", "select"}

\* The ticker is waiting: for an instant that has not come, for a stop
\* signal that has not been given, or for the provider to end.
TickerWaits ==
    CASE ticker.pc = "delay" -> now < ticker.due /\ ~finished.set
      [] ticker.pc = "tick" -> now < ticker.due
      [] ticker.pc = "select" -> now < ticker.due /\ ~finished.set
      [] ticker.pc = "join" -> rngProvider.pc = "run"
      [] OTHER -> TRUE

\* The runtime polls a task that can go on before the clock moves: the
\* ticker, the provider, the futures of roll and the timer tasks all wait.
TasksWait ==
    /\ TickerWaits
    /\ rngProvider.pc = "run" => rngProvider.inbox = <<>> /\ (executor \/ TickerHoldsSender)
    /\ \A c \in Calls :
        /\ calls[c].pc = "seedwait" => ~calls[c].seed /\ rngProvider.pc = "run"
        /\ calls[c].start # NoTime /\ ~calls[c].flag => now < Deadline(calls[c])

ExecFrame == UNCHANGED <<dbVars, actorVars, clientVars, via, histVars, evalVars, fileVars,
                         shutVars, roll, pureVars>>

\* Time passes.
ClockTick ==
    /\ now < MaxTime
    /\ TasksWait
    /\ now' = now + 1
    /\ UNCHANGED <<finished, rngProvider, ticker, executor, calls>>
    /\ ExecFrame

\* finished_sender.send(true)
SignalStop ==
    /\ ~finished.set
    /\ finished' = [set |-> TRUE, at |-> now]
    /\ UNCHANGED <<now, rngProvider, ticker, executor, calls>>
    /\ ExecFrame

\* The RollExecutor is dropped, once stop is signalled and no roll borrows it.
DropExecutor ==
    /\ finished.set
    /\ executor
    /\ \A c \in Calls : calls[c].pc \notin {"seedwait", "resultwait"}
    /\ executor' = FALSE
    /\ UNCHANGED <<now, finished, rngProvider, ticker, calls>>
    /\ ExecFrame

\* The ticker's first select!: sleep(rng_reseed) is over; the interval is made.
TickerDelayOver ==
    /\ ticker.pc = "delay"
    /\ now >= ticker.due
    /\ ticker' = [ticker EXCEPT !.pc = "tick", !.due = now]
    /\ UNCHANGED <<now, finished, rngProvider, executor, calls>>
    /\ ExecFrame

\* Either select!: stop.wait_stop() is ready; drop(sender_clone).
TickerStop ==
    /\ ticker.pc \in {"delay", "select"}
    /\ finished.set
    /\ ticker' = [ticker EXCEPT !.pc = "join"]
    /\ UNCHANGED <<now, finished, rngProvider, executor, calls>>
    /\ ExecFrame

\* "interval.tick().await;" at the head of the loop.
TickerTick ==
    /\ ticker.pc = "tick"
    /\ now >= ticker.due
    /\ ticker' = [ticker EXCEPT !.pc = "select", !.due = @ + Period]
    /\ UNCHANGED <<now, finished, rngProvider, executor, calls>>
    /\ ExecFrame

\* The second select!: interval.tick() is ready; SetCryptoRng is sent, and
\* the loop is left if the provider is gone.
TickerSend ==
    /\ ticker.pc = "select"
    /\ now >= ticker.due
    /\ IF rngProvider.pc = "run"
       THEN /\ Len(rngProvider.inbox) < RngQueueSize
            /\ rngProvider' = [rngProvider EXCEPT !.inbox = Append(@, SetCryptoRng)]
            /\ ticker' = [ticker EXCEPT !.pc = "tick", !.due = @ + Period, !.sent = @ + 1,
                                        !.lastSent = now]
       ELSE /\ ticker' = [ticker EXCEPT !.pc = "join"]
            /\ UNCHANGED rngProvider
    /\ UNCHANGED <<now, finished, executor, calls>>
    /\ ExecFrame

\* The ticker leaves without awaiting the provider.
TickerLeaves ==
    /\ ticker.pc = "join"
    /\ ticker' = [ticker EXCEPT !.pc = "done"]
    /\ UNCHANGED <<now, finished, rngProvider, executor, calls>>
    /\ ExecFrame

\* rng_handle.await.unwrap()
TickerJoin ==
    /\ ticker.pc = "join"
    /\ rngProvider.pc # "run"
    /\ ticker' = [ticker EXCEPT !.pc = IF rngProvider.pc = "stopped" THEN "done" ELSE "panicked"]
    /\ UNCHANGED <<now, finished, rngProvider, executor, calls>>
    /\ ExecFrame

\* RngProvider::run, one message: GetRng answers through the oneshot and
\* unwraps the send; SetCryptoRng replaces the generator.
ProviderRecv ==
    /\ rngProvider.pc = "run"
    /\ rngProvider.inbox # <<>>
    /\ LET m == Head(rngProvider.inbox)
       IN IF m.type = "SetCryptoRng"
          THEN /\ rngProvider' = [rngProvider EXCEPT !.inbox = Tail(@), !.reseeds = @ + 1]
               /\ UNCHANGED calls
          ELSE IF calls[m.c].pc = "seedwait"
          THEN /\ rngProvider' = [rngProvider EXCEPT !.inbox = Tail(@)]
               /\ calls' = [calls EXCEPT ![m.c].seed = TRUE]
          ELSE /\ rngProvider' = [rngProvider EXCEPT !.pc = "panicked", !.inbox = <<>>]
               /\ UNCHANGED calls
    /\ UNCHANGED <<now, finished, ticker, executor>>
    /\ ExecFrame

\* RngProvider::run : recv() gives None when every sender is dropped.
ProviderStop ==
    /\ rngProvider.pc = "run"
    /\ rngProvider.inbox = <<>>
    /\ ~executor
    /\ ~TickerHoldsSender
    /\ rngProvider' = [rngProvider EXCEPT !.pc = "stopped"]
    /\ UNCHANGED <<now, finished, ticker, executor, calls>>
    /\ ExecFrame

\* roll, up to "rng_receive.await": rng_gen.send(GetRng(rng_send)).await.unwrap()
CallStart(c) ==
    /\ executor
    /\ calls[c].pc = "idle"
    /\ IF rngProvider.pc = "run"
       THEN /\ Len(rngProvider.inbox) < RngQueueSize
            /\ rngProvider' = [rngProvider EXCEPT !.inbox = Append(@, GetRng(c))]
            /\ calls' = [calls EXCEPT ![c].pc = "seedwait"]
       ELSE /\ calls' = [calls EXCEPT ![c].pc = "panicked"]
            /\ UNCHANGED rngProvider
    /\ UNCHANGED <<now, finished, ticker, executor>>
    /\ ExecFrame

\* roll, "rng_receive.await.unwrap()" when the provider is gone with the
\* request unanswered.
CallSeedLost(c) ==
    /\ calls[c].pc = "seedwait"
    /\ ~calls[c].seed
    /\ rngProvider.pc # "run"
    /\ calls' = [calls EXCEPT ![c].pc = "panicked"]
    /\ UNCHANGED <<now, finished, rngProvider, ticker, executor>>
    /\ ExecFrame

\* roll, from the seed to "result_receiver.await": pool.execute(job) and
\* spawn of the timer task.
CallSubmit(c) ==
    /\ calls[c].pc = "seedwait"
    /\ calls[c].seed
    /\ calls' = [calls EXCEPT ![c].pc = "resultwait", ![c].job = "queued",
                              ![c].submitted = now]
    /\ UNCHANGED <<now, finished, rngProvider, ticker, executor>>
    /\ ExecFrame

\* A free worker of the pool takes the job: time_sender.send(Instant::now()),
\* then evaluate begins.
WorkerStart(c) ==
    /\ calls[c].job = "queued"
    /\ Cardinality({d \in Calls : calls[d].job = "run"}) < PoolSize
    /\ calls' = [calls EXCEPT ![c].job = "run", ![c].start = now,
                              ![c].flagAtStart = calls[c].flag]
    /\ UNCHANGED <<now, finished, rngProvider, ticker, executor>>
    /\ ExecFrame

\* The timer task: sleep_until is over; timeout_signal_clone.store(true).
TimerStore(c) ==
    /\ calls[c].start # NoTime
    /\ ~calls[c].flag
    /\ now >= Deadline(calls[c])
    /\ calls' = [calls EXCEPT ![c].flag = TRUE]
    /\ UNCHANGED <<now, finished, rngProvider, ticker, executor>>
    /\ ExecFrame

\* The job ends: evaluate returns (Timeout only if it saw the flag) and the
\* result is sent; the caller, if still there, returns it.
WorkerFinish(c, res) ==
    /\ calls[c].job = "run"
    /\ res = "Timeout" => calls[c].flag
    /\ calls' = [calls EXCEPT ![c].job = "finished",
                              ![c].result = res,
                              ![c].pc = IF @ = "resultwait" THEN "done" ELSE @]
    /\ UNCHANGED <<now, finished, rngProvider, ticker, executor>>
    /\ ExecFrame

\* The future of roll is dropped at one of its two awaits.
CallCancel(c) ==
    /\ calls[c].pc \in {"seedwait", "resultwait"}
    /\ calls' = [calls EXCEPT ![c].pc = "cancelled"]
    /\ UNCHANGED <<now, finished, rngProvider, ticker, executor>>
    /\ ExecFrame

NextExec ==
    \/ ClockTick
    \/ SignalStop
    \/ DropExecutor
    \/ TickerDelayOver
    \/ TickerStop
    \/ TickerTick
    \/ TickerSend
    \/ TickerJoin
    \/ ProviderRecv
    \/ ProviderStop
    \/ \E c \in Calls : CallStart(c)
    \/ \E c \in Calls : CallSeedLost(c)
    \/ \E c \in Calls : CallSubmit(c)
    \/ \E c \in Calls : WorkerStart(c)
    \/ \E c \in Calls : TimerStore(c)
    \/ \E c \in Calls, res \in {"Ok", "Timeout"} : WorkerFinish(c, res)
    \/ \E c \in Calls : CallCancel(c)

SpecExec == Init /\ [][NextExec]_vars

(* ------------------------------ one term ------------------------------ *)
PureFrame == UNCHANGED <<dbVars, actorVars, clientVars, via, histVars, evalVars, fileVars,
                         shutVars, roll, execVars>>

\* A term is given.
InitArith ==
    /\ SqlInit
    /\ store = [i \in Ids |-> NoRow]
    /\ FileInit(NoFiles)
    /\ arith \in {[NoArith EXCEPT !.pc = "ready", !.in = i] : i \in ArithInputs}
    /\ parser = NoParser
    /\ run = NoRun

\* Term::evaluate of Calculation(Constant(a), op, Constant(b)).
Calculate ==
    /\ arith.pc = "ready"
    /\ arith.in.kind = "calc"
    /\ LET r == Calculation(arith.in.a, arith.in.op, arith.in.b)
       IN arith' = [arith EXCEPT !.pc = "done", !.result = TermResult(r.err, r.v, <<>>, <<>>)]
    /\ UNCHANGED <<parser, run>>
    /\ PureFrame

\* Dice::evaluate, one pass of its loop with the samples xy.
ThrowOnce(xy) ==
    /\ arith.pc = "ready"
    /\ arith.in.kind = "dice"
    /\ Len(arith.rolls) < arith.in.dice.throws
    /\ xy \in Samples(arith.in.dice)
    /\ LET r == ThrowValue(arith.in.dice, xy)
       IN arith' = IF r.err = "none" THEN [arith EXCEPT !.rolls = Append(@, r.v)]
                   ELSE [arith EXCEPT !.pc = "done",
                                      !.result = TermResult(r.err, 0, <<>>, <<>>)]
    /\ UNCHANGED <<parser, run>>
    /\ PureFrame

\* After the last pass: Dice::evaluate returns (rolls, rolls_copy), the
\* filter and the selector are applied, and Term::DiceThrow sums.
ThrowsDone ==
    /\ arith.pc = "ready"
    /\ arith.in.kind = "dice"
    /\ Len(arith.rolls) = arith.in.dice.throws
    /\ LET original == <<arith.rolls, arith.rolls>>
           filtered == FilteredEvaluate(arith.in.filter, original)
           selected == SelectedEvaluate(arith.in.selector, filtered)
       IN \E r \in DiceThrowResults(selected) :
              arith' = [arith EXCEPT !.pc = "done", !.filtered = filtered[1], !.result = r]
    /\ UNCHANGED <<parser, run>>
    /\ PureFrame

NextArith ==
    \/ Calculate
    \/ \E xy \in Samples(arith.in.dice) : ThrowOnce(xy)
    \/ ThrowsDone

SpecArith == InitArith /\ [][NextArith]_vars

(* ------------------------------ one text ------------------------------ *)
\* A text is given.
InitText ==
    /\ SqlInit
    /\ store = [i \in Ids |-> NoRow]
    /\ FileInit(NoFiles)
    /\ arith = NoArith
    /\ run = NoRun
    /\ parser \in {[NoParser EXCEPT !.pc = "ready", !.src = w, !.text = Spell(w)] : w \in WrittenInputs}

\* parse_labeled(text); tree is the term parse_term gives
\* parse_rearanged_term on the way, before rearange_term is applied to it.
ParseText ==
    /\ parser.pc = "ready"
    /\ \E first \in {ParseLabeled(parser.text)} :
           parser' = [parser EXCEPT !.pc = IF first.ok THEN "parsed" ELSE "refused",
                                    !.tree = ParseTerm(TermText(parser.text)),
                                    !.first = first]
    /\ UNCHANGED <<arith, run>>
    /\ PureFrame

\* Term::evaluate of the parsed term.
EvaluateParsed ==
    /\ parser.pc = "parsed"
    /\ ~parser.evaluated
    /\ parser' = [parser EXCEPT !.evaluated = TRUE, !.value = EvaluateTerm(parser.first.v.e.term)]
    /\ UNCHANGED <<arith, run>>
    /\ PureFrame

\* format!("{}", ..) of the parsed value and of its expression, and the
\* parsers on what was written.
RenderAndParse ==
    /\ parser.pc = "parsed"
    /\ ~parser.reparsed
    /\ parser' = [parser EXCEPT !.reparsed = TRUE,
                                !.rendered = RenderLabeled(parser.first.v),
                                !.again = ParseLabeled(RenderLabeled(parser.first.v)),
                                !.againExpression =
                                    ParseExpression(RenderExpression(parser.first.v.e))]
    /\ UNCHANGED <<arith, run>>
    /\ PureFrame

NextText ==
    \/ ParseText
    \/ EvaluateParsed
    \/ RenderAndParse

SpecText == InitText /\ [][NextText]_vars

(* --------------------------- one evaluation --------------------------- *)
Builds == {"release", "debug"}

\* An expression, a seed, the behaviour of timeout_f and the build are given.
InitDraws ==
    /\ SqlInit
    /\ store = [i \in Ids |-> NoRow]
    /\ FileInit(NoFiles)
    /\ arith = NoArith
    /\ parser = NoParser
    /\ run \in {[NoRun EXCEPT !.pc = "ready", !.expr = e, !.seed = seed,
                             !.st = SeedFrom(seed, trip, build)] :
                e \in RunExprs, seed \in Seeds, trip \in 0..MaxTrip,
                build \in Builds}

Outcome(err, results, st) == [err |-> err, results |-> results, st |-> st]

\* Expression::evaluate of Simple(term)
SimpleEvaluate ==
    /\ run.pc = "ready"
    /\ ~run.expr.list
    /\ \E r \in {TermEvaluate(run.expr.term, <<>>, run.st)} :
           run' = [run EXCEPT !.pc = "done", !.st = r.st,
                              !.outcome = IF r.err = "none"
                                          THEN Outcome("none", <<[v |-> r.v, rolls |-> r.rolls]>>, r.st)
                                          ELSE Outcome(r.err, <<>>, r.st)]
    /\ UNCHANGED <<arith, parser>>
    /\ PureFrame

\* Expression::evaluate of List(count, term): one pass of its loop.
ListPass ==
    /\ run.pc = "ready"
    /\ run.expr.list
    /\ Len(run.results) < run.expr.count
    /\ \E r \in {TermEvaluate(run.expr.term, <<>>, run.st)} :
           run' = IF r.err = "none"
                  THEN [run EXCEPT !.results = Append(@, [v |-> r.v, rolls |-> r.rolls]),
                                   !.st = [r.st EXCEPT !.iter = @ + 1]]
                  ELSE [run EXCEPT !.pc = "done", !.st = r.st,
                                   !.outcome = Outcome(r.err, <<>>, r.st)]
    /\ UNCHANGED <<arith, parser>>
    /\ PureFrame

\* Expression::evaluate of List(count, term): Ok(result_collector)
ListDone ==
    /\ run.pc = "ready"
    /\ run.expr.list
    /\ Len(run.results) = run.expr.count
    /\ run' = [run EXCEPT !.pc = "done", !.outcome = Outcome("none", run.results, run.st)]
    /\ UNCHANGED <<arith, parser>>
    /\ PureFrame

\* The second evaluation goes on with the generator the first one left.
EvaluateAgainUnseeded ==
    /\ run.pc = "done"
    /\ run.first = NoOutcome
    /\ run' = [run EXCEPT !.pc = "ready", !.first = run.outcome, !.results = <<>>,
                          !.outcome = NoOutcome,
                          !.st = [SeedFrom(run.st.rng, run.st.trip, run.st.build)
                                    EXCEPT !.polls = run.st.polls]]
    /\ UNCHANGED <<arith, parser>>
    /\ PureFrame

\* The same expression is evaluated once more with a generator of the same
\* seed and a timeout_f that behaves as before.
EvaluateAgain ==
    /\ run.pc = "done"
    /\ run.first = NoOutcome
    /\ run' = [run EXCEPT !.pc = "ready", !.first = run.outcome, !.results = <<>>,
                          !.outcome = NoOutcome,
                          !.st = SeedFrom(run.seed, run.st.trip, run.st.build)]
    /\ UNCHANGED <<arith, parser>>
    /\ PureFrame

NextDraws ==
    \/ SimpleEvaluate
    \/ ListPass
    \/ ListDone
    \/ EvaluateAgain

SpecDraws == InitDraws /\ [][NextDraws]_vars

(* ====================== claims on Spec (SQL-backed) =================== *)
Values(info) ==
    [command_prefix |-> info.command_prefix, roll_prefix |-> info.roll_prefix,
     aliases |-> info.aliases, roll_info |-> info.roll_info]

Flag(info, f) ==
    CASE f = "command_prefix" -> info.command_prefix_changed
      [] f = "roll_prefix" -> info.roll_prefix_changed
      [] f = "aliases" -> info.aliases_changed
      [] f = "roll_info" -> info.roll_info_changed

DirtyFields(info) == {f \in Fields : Flag(info, f)}

\* The column text of a field of an entry.
Serialized(info, f) ==
    CASE f = "command_prefix" -> info.command_prefix
      [] f = "roll_prefix" -> ListToJson(info.roll_prefix)
      [] f = "aliases" -> MapToJson(info.aliases)
      [] f = "roll_info" -> info.roll_info

Replied(c) == cpc[c] = "idle" /\ via[c] # "none"

SetClosuresFor(id) ==
    {i \in 1..Len(dbQueue) : dbQueue[i].kind = "set" /\ dbQueue[i].id = id}

\* C1 (write-through): every reply to a read op (Get*, GetBundle) equals the
\* read applied to the tenant's entry as left by all ops that arrived before
\* it, so it reflects every mutation acknowledged earlier, executed write-back
\* or not.
Thm_C1_WriteThrough ==
    \A c \in Clients :
        (Replied(c) /\ cop[c].op.type \in ReadOpTypes) => creply[c] = expect[c]

\* A read answered from the cache returns the new command prefix while the
\* changeset that carries it is still queued for the db_worker.
Wit_C1_ReadBeforeWriteBack ==
    \E c \in Clients :
        /\ Replied(c) /\ via[c] = "hit"
        /\ cop[c].op.type = "GetCommandPrefix"
        /\ creply[c].s = "!!"
        /\ \E i \in SetClosuresFor(cop[c].id) : dbQueue[i].change.command_prefix.some

\* C2 (coalescing): every reply produced by the replay of the ops queued
\* behind a load equals the reply of the same op in the same arrival order on
\* an entry that was already loaded from the same row.
Thm_C2_Coalescing ==
    \A c \in Clients : (Replied(c) /\ via[c] = "replay") => creply[c] = expect[c]

\* Two ops of one tenant answered by the replay of its first load: an
\* AddRollPrefix that replied Ok and a later GetRollPrefixes that lists it.
Wit_C2_TwoCoalesced ==
    \E c1, c2 \in Clients :
        /\ c1 # c2 /\ Replied(c1) /\ Replied(c2)
        /\ via[c1] = "replay" /\ via[c2] = "replay"
        /\ cop[c1].id = cop[c2].id /\ loads[cop[c1].id] = 1
        /\ cop[c1].op.type = "AddRollPrefix" /\ creply[c1].t = "Ok"
        /\ cop[c2].op.type = "GetRollPrefixes"
        /\ Contains(creply[c2].l, cop[c1].op.s)

\* The step in which the actor runs one op on a cached entry.
HitStep ==
    /\ ActorReady /\ loaded = <<>> /\ inbox # <<>>
    /\ InCache(cacheOrder, Head(inbox).id)
    /\ inbox' = Tail(inbox)

\* The step in which the actor replays the ops queued behind a load.
ReplayStep == ActorReady /\ loaded # <<>> /\ loaded' = Tail(loaded)

\* C5 (as claimed): an op on a cached entry that replies Err, and every read
\* op, leaves the entry (configuration and dirty flags) unchanged and submits
\* no changeset.
Claim_C5_ErrAndReadsAreFrameOps ==
    [][HitStep =>
        LET m == Head(inbox)
        IN (creply'[m.client].t = "Err" \/ m.op.type \in ReadOpTypes) =>
              /\ cacheInfo'[m.id] = cacheInfo[m.id]
              /\ dbQueue' = dbQueue
              /\ ~hold'.active
              /\ actorAlive']_vars

\* The closure whose db_submit.send starts in this step, if there is one.
Submits == (hold'.active /\ ~hold.active) \/ (~hold.active /\ Len(dbQueue') = Len(dbQueue) + 1)
Submitted == IF hold'.active THEN hold'.c ELSE dbQueue'[Len(dbQueue')]

FieldOfOp(t) ==
    CASE t = "SetCommandPrefix" -> "command_prefix"
      [] t \in {"AddRollPrefix", "RemoveRollPrefix"} -> "roll_prefix"
      [] t \in {"AddAlias", "RemoveAlias"} -> "aliases"
      [] t = "SetRollInfo" -> "roll_info"

\* The fields the ops msgs modified, going by the replies they received.
ModifiedBy(msgs, replyOf) ==
    {FieldOfOp(msgs[i].op.type) :
        i \in {j \in 1..Len(msgs) : /\ msgs[j].op.type \in MutOpTypes
                                    /\ replyOf[msgs[j].client].t \in {"Ok", "unit"}}}

\* C7 (as claimed): a changeset names exactly the fields modified since the
\* tenant's previous changeset or flagged by a load-time parse failure, each
\* with its in-memory value, and leaves all four dirty flags false.
Claim_C7_ChangesetIsModifiedFields ==
    [][/\ (HitStep /\ Submits /\ Submitted.kind = "set") =>
            LET m == Head(inbox)
            IN /\ ChangeFields(Submitted.change)
                    = DirtyFields(cacheInfo[m.id]) \cup ModifiedBy(<<m>>, creply')
               /\ \A f \in ChangeFields(Submitted.change) :
                    Submitted.change[f].v = Serialized(cacheInfo'[m.id], f)
               /\ DirtyFields(cacheInfo'[m.id]) = {}
       /\ (ReplayStep /\ Submits /\ Submitted.kind = "set") =>
            LET id == Head(loaded).id
                entry == IF hold'.active THEN hold'.post.info ELSE cacheInfo'[id]
            IN /\ ChangeFields(Submitted.change)
                    = DirtyFields(ClientInformationNew(Head(loaded).config))
                      \cup ModifiedBy(pending[id], creply')
               /\ \A f \in ChangeFields(Submitted.change) :
                    Submitted.change[f].v = Serialized(entry, f)
               /\ DirtyFields(entry) = {}]_vars

\* C8 (as claimed): after the store has rejected a changeset the db_worker is
\* still there to consume later closures.
Claim_C8_WorkerSurvivesWriteError == setFailed => workerAlive

\* The step in which a suspended db_submit.send completes or fails.
ResumeStep == actorAlive /\ hold.active /\ ~hold'.active

\* The entry the replay handler inserts with cache_set, once it has run to
\* its end.
Inserted(id) ==
    IF hold'.active THEN hold'.post.do /\ hold'.post.id = id
    ELSE InCache(cacheOrder', id)

\* What the replay handler and the completion of its suspended send owe a
\* load that completes: every op queued for the tenant is answered, in arrival
\* order; the tenant leaves the pending table; no op is taken from the
\* channel meanwhile; at most one closure is submitted, a changeset of the
\* tenant; it is submitted and carries every field the replay modified if a
\* replayed op mutated the entry; the entry is inserted into the cache.
ReplayOnLoadCompletion ==
    /\ ReplayStep =>
         LET id == Head(loaded).id
             msgs == pending[id]
         IN /\ msgs # <<>>
            /\ \A i \in 1..Len(msgs) :
                 /\ cpc'[msgs[i].client] = "idle"
                 /\ via'[msgs[i].client] = "replay"
                 /\ creply'[msgs[i].client] = expect[msgs[i].client]
            /\ pending'[id] = <<>>
            /\ inbox' = inbox
            /\ Len(dbQueue') <= Len(dbQueue) + 1
            /\ Submits => Submitted.kind = "set" /\ Submitted.id = id
            /\ ModifiedBy(msgs, creply') # {} =>
                 /\ Submits
                 /\ ModifiedBy(msgs, creply') \subseteq ChangeFields(Submitted.change)
            /\ actorAlive'
            /\ Inserted(id)
    /\ (ResumeStep /\ hold.post.do) =>
         /\ actorAlive'
         /\ inbox' = inbox
         /\ InCache(cacheOrder', hold.post.id)
    /\ hold.active => Len(inbox') >= Len(inbox)

\* C35 (as claimed): when a load completes, and before the actor processes
\* any further op, every op queued for that tenant is replayed in arrival
\* order, the tenant is removed from the pending table, at most one changeset
\* is submitted (exactly one, with every field dirtied during the replay, if
\* any replayed op mutated the entry), and the entry is inserted into the
\* cache.
Claim_C35_ReplayOnLoadCompletion == [][ReplayOnLoadCompletion]_vars

\* The two JSON columns of a row and whether their text parses.
JsonFields == {"roll_prefix", "aliases"}
Parses(source, f) == IF f = "roll_prefix" THEN source.roll_prefix.ok ELSE source.aliases.ok
ParsedText(source, f) ==
    IF f = "roll_prefix" THEN ListToJson(source.roll_prefix.arr)
    ELSE MapToJson(MapFromJson(source.aliases))
EmptyText(f) == IF f = "roll_prefix" THEN ListToJson(<<>>) ELSE MapToJson(EmptyAliases)

\* The entry a replay leaves for the cache.
EntryOfReplay(id) == IF hold'.active THEN hold'.post.info ELSE cacheInfo'[id]

\* C36: a row whose roll_prefix or aliases text does not parse gives an entry
\* with that field empty and its dirty flag set, the other JSON field parsed
\* and unflagged; a flag stays set until a changeset of the tenant is
\* submitted, and every changeset submitted for a tenant carries each field
\* that was flagged, with the empty value when no op touched the field, also
\* when the op that caused the changeset modified another field.
Thm_C36_ParseFailureRewritten ==
    [][/\ (ReplayStep /\ ~Submits /\ actorAlive') =>
            LET id == Head(loaded).id
                source == Head(loaded).config
            IN \A f \in JsonFields :
                  IF Parses(source, f)
                  THEN /\ Serialized(EntryOfReplay(id), f) = ParsedText(source, f)
                       /\ ~Flag(EntryOfReplay(id), f)
                  ELSE /\ Serialized(EntryOfReplay(id), f) = EmptyText(f)
                       /\ Flag(EntryOfReplay(id), f)
       /\ (ReplayStep /\ Submits) =>
            LET id == Head(loaded).id
                source == Head(loaded).config
            IN /\ Submitted.kind = "set" /\ Submitted.id = id
               /\ \A f \in JsonFields : ~Parses(source, f) =>
                     /\ Submitted.change[f].some
                     /\ f \notin ModifiedBy(pending[id], creply') =>
                            Submitted.change[f].v = EmptyText(f)
       /\ (HitStep /\ Submits) =>
            LET m == Head(inbox)
            IN /\ Submitted.kind = "set" /\ Submitted.id = m.id
               /\ \A f \in DirtyFields(cacheInfo[m.id]) :
                     /\ Submitted.change[f].some
                     /\ f \notin ModifiedBy(<<m>>, creply') =>
                            Submitted.change[f].v = Serialized(cacheInfo[m.id], f)
       /\ \A id \in Ids :
            (/\ InCache(cacheOrder, id) /\ InCache(cacheOrder', id) /\ actorAlive'
             /\ ~(HitStep /\ Submits /\ Head(inbox).id = id)) =>
                /\ DirtyFields(cacheInfo[id]) \subseteq DirtyFields(cacheInfo'[id])
                /\ \A f \in DirtyFields(cacheInfo[id]) :
                      Serialized(cacheInfo'[id], f) = Serialized(cacheInfo[id], f)]_vars

\* Tenant 1's stored roll_prefix text does not parse; set_command_prefix("!!")
\* has put a changeset in the queue that names command_prefix and roll_prefix,
\* the latter with the empty list, and not aliases.
Wit_C36_OtherFieldMutated ==
    /\ store[1].present /\ ~store[1].row.roll_prefix.ok
    /\ \E i \in SetClosuresFor(1) :
          /\ dbQueue[i].change.command_prefix.some
          /\ dbQueue[i].change.command_prefix.v = "!!"
          /\ dbQueue[i].change.roll_prefix.some
          /\ dbQueue[i].change.roll_prefix.v = ListToJson(<<>>)
          /\ ~dbQueue[i].change.aliases.some

\* The loads of a tenant in flight: get closures queued for the db_worker or
\* held by the actor's suspended send, and rows on their way back to the
\* actor.
LoadsInFlight(id) ==
    Cardinality({i \in 1..Len(dbQueue) : dbQueue[i].kind = "get" /\ dbQueue[i].id = id})
    + Cardinality({i \in 1..Len(loaded) : loaded[i].id = id})
    + (IF hold.active /\ hold.c.kind = "get" /\ hold.c.id = id THEN 1 ELSE 0)

InPending(id) == pending[id] # <<>>

\* What C37 says of a state.
OneTableOneLoad ==
    \A id \in Ids :
        /\ ~(InCache(cacheOrder, id) /\ InPending(id))
        /\ LoadsInFlight(id) = IF InPending(id) THEN 1 ELSE 0

\* C37 (as claimed): an id is never both in the cache and in the pending
\* table; exactly one load is outstanding for each id in the pending table
\* and none for any other id.
Claim_C37_OneTableOneLoad == OneTableOneLoad

\* An op of client c is in the actor's channel or queued behind a load, its
\* task awaiting the reply.
Awaiting(c) == cpc[c] = "wait"

\* C38 (as claimed, on SpecFair): every op sent through a StorageHandle is
\* answered, and answered once: the awaiting task receives a reply, whatever
\* the interleaving, the filling of the persistence queue and the Err replies
\* among the ops.
Claim_C38_EveryOpAnswered == \A c \in Clients : Awaiting(c) ~> Replied(c)

Evicted(id) == InCache(cacheOrder, id) /\ ~InCache(cacheOrder', id)

\* C9 (as claimed): when an entry is evicted, each of its dirty fields has
\* been written to the store.
Claim_C9_EvictionFlushes ==
    [][\A id \in Ids : Evicted(id) =>
            \A f \in DirtyFields(cacheInfo[id]) :
                store'[id].present /\ store'[id].row[f] = Serialized(cacheInfo[id], f)]_vars

RECURSIVE ApplyOps(_, _)
ApplyOps(info, msgs) ==
    IF msgs = <<>> THEN info ELSE ApplyOps(RunCmd(info, Head(msgs).op).client, Tail(msgs))

InboxOf(id) == SelectSeq(inbox, LAMBDA m : m.id = id)

\* C9 (amended): eviction writes nothing; a flag the evicted entry carries
\* stems from a column that still does not parse; and every row on its way to
\* the actor already holds all mutations acknowledged before: with the ops
\* queued behind the load and those still in the channel it gives the entry
\* that the arrival order defines.
Thm_C9_EvictionLosesNothing ==
    /\ [](\A i \in 1..Len(loaded) :
            LET e == loaded[i]
                replayed == Replay(ClientInformationNew(e.config), pending[e.id]).client
            IN Values(ApplyOps(replayed, InboxOf(e.id))) = Values(ref[e.id]))
    /\ [][\A id \in Ids : Evicted(id) =>
            /\ store' = store
            /\ \A i \in 1..Len(dbQueue') :
                (dbQueue'[i].kind = "set" /\ dbQueue'[i].id = id)
                    => i <= Len(dbQueue) /\ dbQueue[i] = dbQueue'[i]
            /\ \A f \in DirtyFields(cacheInfo[id]) :
                /\ f \in {"roll_prefix", "aliases"}
                /\ store[id].present /\ ~store[id].row[f].ok]_vars

\* A tenant is loaded a second time (after its eviction) and the row carries
\* the command prefix set before the eviction.
Wit_C9_ReloadAfterEviction ==
    \E i \in 1..Len(loaded) :
        /\ loads[loaded[i].id] = 2
        /\ loaded[i].config.command_prefix = "!!"

\* The defaults the claim names.
ClaimDefaults ==
    [command_prefix |-> "rrb!", roll_prefix |-> ListToJson(<<>>),
     aliases |-> MapToJson([n \in AliasNames |-> NoExpr]), roll_info |-> FALSE]

Unmutated(id) == ~touched[id] /\ Values(ref[id]) = Values(BlankInfo)

\* C10 (load idempotence): at most one row is ever inserted for an id; for an
\* id that had no row, every load made while no op has changed the
\* configuration yields the default row, and the first op queued behind such
\* a load is answered from the defaults.
Thm_C10_LoadIdempotence ==
    /\ [](\A id \in Ids :
            /\ inserts[id] <= 1
            /\ inserts[id] = 1 => store[id].present
            /\ \A i \in 1..Len(loaded) :
                (loaded[i].id = id /\ inserts[id] = 1 /\ Unmutated(id))
                    => loaded[i].config = ClaimDefaults)
    /\ [][(ReplayStep /\ inserts[Head(loaded).id] = 1
                      /\ Head(loaded).config = ClaimDefaults) =>
            LET m == Head(pending[Head(loaded).id])
            IN creply'[m.client] = RunCmd(ClientInformationNew(ClaimDefaults), m.op).reply]_vars

\* The second load of a tenant whose row was inserted by its first load.
Wit_C10_SecondLoad ==
    \E i \in 1..Len(loaded) :
        /\ loads[loaded[i].id] = 2 /\ inserts[loaded[i].id] = 1
        /\ loaded[i].config = ClaimDefaults

\* The tenant whose op, load or closure a step handles (0: none).
ActingTenant ==
    IF Len(dbQueue') < Len(dbQueue) THEN Head(dbQueue).id
    ELSE IF Len(loaded') < Len(loaded) THEN Head(loaded).id
    ELSE IF Len(inbox') < Len(inbox) THEN Head(inbox).id
    ELSE IF Len(inbox') > Len(inbox) THEN inbox'[Len(inbox')].id
    ELSE IF hold.active THEN hold.c.id
    ELSE 0

\* A step leaves tenant j as it was: its row, its pending queue, its
\* configuration in arrival order, its cached entry with the dirty flags
\* (unless the entry leaves the cache), and the tasks waiting on it.
Framed(j) ==
    /\ store'[j] = store[j]
    /\ inserts'[j] = inserts[j]
    /\ pending'[j] = pending[j]
    /\ ref'[j] = ref[j]
    /\ InCache(cacheOrder', j) => (InCache(cacheOrder, j) /\ cacheInfo'[j] = cacheInfo[j])
    /\ \A c \in Clients :
        (cop[c].id = j /\ cpc[c] = "wait") =>
            /\ cpc'[c] = cpc[c]
            /\ creply'[c] = creply[c]
            /\ expect'[c] = expect[c]

Claim_C3_PermissionGating ==
    \A c \in Clients :
        ev[c].cmd.type \in MutCommandTypes =>
            /\ ev[c].pc \in {"call", "wait"} => (ev[c].asked /\ ev[c].perm)
            /\ (ev[c].pc = "done" /\ ev[c].asked /\ ~ev[c].perm) =>
                    ev[c].result.t = "InsufficentPermission"

\* C6 (as stated): whatever the storage actor replies to AddAlias or
\* AddRollPrefix (Ok or Err), eval completes normally and returns the
\* command result of that command.
Claim_C6_EvalReturnsOnErr ==
    \A c \in Clients :
        (/\ ev[c].cmd.type \in {"AddAlias", "AddRollPrefix"}
         /\ ev[c].pc \notin {"call", "wait"}
         /\ creply[c].t \in {"Ok", "Err"})
            => (ev[c].pc = "done" /\ ev[c].result.t = ev[c].cmd.type)

\* The bundle of one configuration state for a candidate list.
BundleOf(info, names) ==
    ReplyBundle(info.command_prefix, info.roll_prefix,
                FilterMapAliases(info.aliases, names), info.roll_info)

\* C12: one evaluation's parse sends exactly one storage op, a Get carrying
\* the candidate list; the bundle it is answered with is the bundle of one
\* configuration state (the tenant's configuration in arrival order at the
\* moment the Get arrived), whatever mutations of the same tenant are
\* interleaved; and the command, prefix and verbose flag parse hands to eval
\* are computed from that bundle alone, without a further storage op.
Thm_C12_ParseSnapshot ==
    /\ [](\A c \in Clients :
            (ev[c].pc = "parse" /\ cpc[c] = "idle") =>
                /\ creply[c].t = "bundle"
                /\ creply[c] = expect[c])
    /\ [][\A c \in Clients :
            (ev[c].pc # "parse" /\ ev'[c].pc = "parse") =>
                /\ sent' = sent + 1
                /\ cop'[c].op = Op("Get", "", NoExpr, FALSE, Candidates(ev'[c].text))
                /\ expect'[c] = BundleOf(ref[ev'[c].id], Candidates(ev'[c].text))]_vars
    /\ [][\A c \in Clients :
            ev[c].pc = "parse" =>
                /\ cop'[c] = cop[c]
                /\ expect'[c] = expect[c]
                /\ ev'[c].pc # "parse" =>
                    /\ sent' = sent
                    /\ ev'[c].cmd = Parse(ev[c].text, expect[c])
                    /\ ev'[c].prefix = expect[c].s
                    /\ ev'[c].roll_info = expect[c].b]_vars

\* A parse holds the bundle of the state before a command prefix change of
\* the same tenant that another task has made since.
Wit_C12_MutationInterleaved ==
    \E c, d \in Clients :
        /\ c # d
        /\ ev[c].pc = "parse" /\ cpc[c] = "idle"
        /\ creply[c].t = "bundle" /\ creply[c].s = DefaultCommandPrefix
        /\ ev[d].id = ev[c].id
        /\ ev[d].cmd.type = "SetCommandPrefix" /\ ev[d].pc = "done"
        /\ ev[d].result.t = "SetCommandPrefix"
        /\ InCache(cacheOrder, ev[c].id)
        /\ cacheInfo[ev[c].id].command_prefix # DefaultCommandPrefix

\* No SetCommandPrefix eval of the id is between sending its op and returning.
Quiet(id) == SetInFlight(id) = {}

\* The eval of c returns Help or GetCommandPrefix in this step.
ReportsPrefix(c) ==
    /\ ev[c].pc = "parse"
    /\ ev'[c].pc = "done"
    /\ ev'[c].result.t \in {"Help", "GetCommandPrefix"}

\* C13 (as stated): the prefix an eval reports with Help or GetCommandPrefix
\* is, at the moment it is reported, the value of the most recent
\* SetCommandPrefix eval of the tenant that has returned, or "rrb!" if none
\* has.
Claim_C13_ReportsLastAcknowledged ==
    [][\A c \in Clients : ReportsPrefix(c) => ev'[c].result.s = acked[ev[c].id].s]_vars

\* C13 (amended): the prefix reported is the tenant's command prefix at the
\* moment the eval's Get reached the actor, which is the value of the most
\* recent SetCommandPrefix op that reached the actor before it ("rrb!" if
\* none did); when no SetCommandPrefix eval of the tenant is in flight and
\* none has overlapped another, that is the value of the most recent
\* SetCommandPrefix eval that returned, so that a message p "h" evaluated
\* after SetCommandPrefix(p) returned yields Help(p).
Thm_C13_PrefixChange ==
    /\ [](\A id \in Ids :
            (Quiet(id) /\ ~acked[id].raced) => ref[id].command_prefix = acked[id].s)
    /\ [][\A id \in Ids :
            ref'[id].command_prefix # ref[id].command_prefix =>
                \E c \in Clients :
                    /\ cpc[c] = "idle" /\ cpc'[c] = "wait"
                    /\ cop'[c] = [id |-> id,
                                  op |-> Op("SetCommandPrefix", ref'[id].command_prefix,
                                            NoExpr, FALSE, <<>>)]]_vars
    /\ [][\A c \in Clients :
            (ev[c].pc # "parse" /\ ev'[c].pc = "parse") =>
                expect'[c].s = ref[ev'[c].id].command_prefix]_vars
    /\ [][\A c \in Clients :
            ReportsPrefix(c) =>
                /\ ev'[c].result.s = expect[c].s
                /\ (ev[c].text = <<expect[c].s, "h">> => ev'[c].result.t = "Help")]_vars

\* "!!" "h" is answered with Help("!!") after SetCommandPrefix("!!") returned.
Wit_C13_HelpWithNewPrefix ==
    \E c, d \in Clients :
        /\ c # d
        /\ ev[d].pc = "done" /\ ev[d].result.t = "SetCommandPrefix" /\ ev[d].result.s = "!!"
        /\ ev[c].id = ev[d].id
        /\ ev[c].pc = "done" /\ ev[c].text = <<"!!", "h">>
        /\ ev[c].result = Res("Help", "!!", NoReply, <<>>, FALSE)
        /\ acked[ev[d].id] = [s |-> "!!", raced |-> FALSE]

(* ======================== claims on SpecFile ========================== *)
\* C4 (as stated): in the file-backed actor the ops on one id take effect
\* and are answered in their order of arrival at the actor: every reply a
\* task receives is the reply of its op applied after exactly the ops on
\* that id that arrived before it.
Claim_C4_FileArrivalOrder ==
    \A c \in Clients :
        (fpc[c] = "idle" /\ freply[c].t # "none") => freply[c] = fexpect[c]

\* C39 (as claimed): after the file-backed actor has replied to an op, an
\* AddRollPrefix that replies Err and a RemoveRollPrefix that replies Ok
\* among them, handle is still in its receive loop, and no task that sent an
\* op loses the channel on which it awaits the reply.
Claim_C39_FileActorKeepsRunning ==
    \A c \in Clients :
        /\ (fpc[c] = "idle" /\ freply[c].t # "none") => falive
        /\ fpc[c] # "panicked"

(* ======================= claims on SpecRunCmd ========================= *)
\* The op run_cmd has just been applied to, and what it did to the list.
RunCmdDone == sent' = sent + 1
OpDone == cop'[1].op
ListBefore == cacheInfo[1].roll_prefix
ListAfter == cacheInfo'[1].roll_prefix

\* C14: the roll-prefix list of a tenant that starts without duplicates has
\* no duplicates after any sequence of ops; an AddRollPrefix that replies Ok
\* appends the prefix at the end, one that replies Err changes nothing; a
\* RemoveRollPrefix that replies Ok deletes exactly the one entry equal to
\* the prefix and keeps the others in their order, one that replies Err
\* changes nothing; no other op touches the list.
Thm_C14_RollPrefixSet ==
    /\ [](NoDuplicates(cacheInfo[1].roll_prefix))
    /\ [][RunCmdDone =>
            /\ OpDone.type = "AddRollPrefix" =>
                IF creply'[1] = ReplyOk
                THEN ~Contains(ListBefore, OpDone.s) /\ ListAfter = ListBefore \o <<OpDone.s>>
                ELSE /\ creply'[1] = ReplyErr
                     /\ Contains(ListBefore, OpDone.s)
                     /\ ListAfter = ListBefore
            /\ OpDone.type = "RemoveRollPrefix" =>
                IF creply'[1] = ReplyOk
                THEN \E i \in 1..Len(ListBefore) :
                        /\ ListBefore[i] = OpDone.s
                        /\ Len(ListAfter) = Len(ListBefore) - 1
                        /\ \A j \in 1..Len(ListAfter) :
                            ListAfter[j] = IF j < i THEN ListBefore[j] ELSE ListBefore[j + 1]
                ELSE /\ creply'[1] = ReplyErr
                     /\ ~Contains(ListBefore, OpDone.s)
                     /\ ListAfter = ListBefore
            /\ OpDone.type \notin {"AddRollPrefix", "RemoveRollPrefix"} =>
                ListAfter = ListBefore]_vars

\* A prefix was added at the end and then the first of three was removed.
Wit_C14_RemovedFirstOfThree ==
    /\ sent = 2
    /\ ClientInformationNew(store[1].row).roll_prefix = <<"b", "c">>
    /\ cop[1].op = Op("RemoveRollPrefix", "b", NoExpr, FALSE, <<>>)
    /\ creply[1] = ReplyOk
    /\ cacheInfo[1].roll_prefix = <<"c", "a">>

\* The expressions of the candidates that are keys of the alias map, in
\* the order of the candidates.
BoundCandidates(a, names) ==
    LET keys == SelectSeq(names, LAMBDA n : n \in DOMAIN a /\ a[n] # NoExpr)
    IN [k \in 1..Len(keys) |-> a[keys[k]]]

\* C15: run_cmd on Get(candidates) replies with the entry's command prefix,
\* its roll-prefix list, its verbose flag and, for each candidate in order
\* that is a key of the alias map, the bound expression (unbound candidates
\* skipped, a repeated candidate answered each time); the entry, its dirty
\* flags included, is left as it was and no write-back is requested.
Thm_C15_GetBundle ==
    [][(RunCmdDone /\ OpDone.type = "Get") =>
            /\ creply'[1].t = "bundle"
            /\ creply'[1].s = cacheInfo[1].command_prefix
            /\ creply'[1].l = cacheInfo[1].roll_prefix
            /\ creply'[1].b = cacheInfo[1].roll_info
            /\ creply'[1].x = BoundCandidates(cacheInfo[1].aliases, OpDone.c)
            /\ cacheInfo' = cacheInfo
            /\ via'[1] = "no wb"]_vars

\* A bound candidate occurs twice around an unbound one, after the alias
\* map was changed.
Wit_C15_RepeatedCandidate ==
    /\ sent = 2
    /\ cop[1].op = Op("Get", "", NoExpr, FALSE, <<"y", "(text)", "y">>)
    /\ cacheInfo[1].aliases = [n \in AliasNames |-> IF n = "x" THEN "e2" ELSE "e1"]
    /\ cacheInfo[1].aliases_changed
    /\ creply[1] = ReplyBundle(cacheInfo[1].command_prefix, cacheInfo[1].roll_prefix,
                               <<"e1", "e1">>, cacheInfo[1].roll_info)

(* ======================== claims on SpecParse ========================= *)
\* parse has just been applied: its text, the bundle it got, its command.
Parsed == evals' = evals + 1
TextParsed == ev'[1].text
BundleParsed == creply'[1]
StartsWithCommandPrefix == TextParsed # <<>> /\ TextParsed[1] = BundleParsed.s
RollMatches ==
    {i \in 1..Len(BundleParsed.l) : ParseRoll(TextParsed, BundleParsed.l[i]).ok}
FirstRollMatch == CHOOSE i \in RollMatches : \A j \in RollMatches : i <= j

\* C16: a text that starts with the command prefix yields the sub-command
\* that matches the whole remainder, or Help if none does, whatever the
\* roll prefixes and resolved aliases are; any other text yields the Roll of
\* the first roll prefix in list order that, followed by an expression, is
\* the whole text; failing that AliasRoll of the resolved aliases if there
\* are any; failing that no command.
Thm_C16_StageOrder ==
    [][Parsed =>
        ev'[1].cmd =
            IF StartsWithCommandPrefix
            THEN IF SubCommand(Delimited(Tail(TextParsed))).ok
                 THEN SubCommand(Delimited(Tail(TextParsed))).cmd
                 ELSE CmdHelp
            ELSE IF RollMatches # {}
            THEN ParseRoll(TextParsed, BundleParsed.l[FirstRollMatch]).cmd
            ELSE IF BundleParsed.x # <<>>
            THEN Cmd("AliasRoll", "", NoExpr, FALSE, BundleParsed.x)
            ELSE NoCommand]_vars

\* The command prefix is also a roll prefix and the text names a bound
\* alias: the command stage answered (Help), not Roll or AliasRoll.
Wit_C16_CommandStageWins ==
    /\ ev[1].pc = "done"
    /\ ev[1].text = <<"a", "e1", "$y">>
    /\ creply[1].s = "a"
    /\ Contains(creply[1].l, "a")
    /\ creply[1].x # <<>>
    /\ ev[1].result = Res("Help", "a", NoReply, <<>>, FALSE)

\* Every $name of a text, in order.
RECURSIVE DollarNames(_)
DollarNames(text) ==
    IF text = <<>> THEN <<>>
    ELSE (IF Head(text) \in DollarTokens THEN <<DollarName(Head(text))>> ELSE <<>>)
         \o DollarNames(Tail(text))

\* str::trim : the text without its leading and trailing whitespace.
Trimmed(text) == Delimited(text)

\* C17 (as stated): the candidate list of parse's Get is every $name of the
\* text in order, duplicates kept, followed by the whole message trimmed;
\* so a message that is a bound alias name between whitespace is answered
\* with AliasRoll of that alias (when neither the command prefix nor a roll
\* prefix matches it).
Claim_C17_TrimmedCandidate ==
    [][Parsed =>
        /\ cop'[1].op.c = Append(DollarNames(TextParsed), WholeText(Trimmed(TextParsed)))
        /\ \A n \in AliasNames :
            (/\ cacheInfo[1].aliases[n] # NoExpr
             /\ Trimmed(TextParsed) = <<n>>
             /\ ~StartsWithCommandPrefix
             /\ RollMatches = {}) =>
                ev'[1].cmd = Cmd("AliasRoll", "", NoExpr, FALSE, <<cacheInfo[1].aliases[n]>>)]_vars

\* C18 (as stated): the command prefix, every roll prefix and every alias
\* name of an entry that started from a well-formed row and was changed
\* through commands is made of name characters only: it is not empty and has
\* no whitespace, no "$" and no separator or other character.
Claim_C18_NameInvariant ==
    /\ CharsSet(cacheInfo[1].command_prefix)
    /\ \A i \in 1..Len(cacheInfo[1].roll_prefix) : CharsSet(cacheInfo[1].roll_prefix[i])
    /\ \A n \in AliasNames : cacheInfo[1].aliases[n] # NoExpr => CharsSet(n)

(* ========================= claims on SpecRoll ========================= *)
\* C20 (as stated): whatever the expression, dice or no dice, once the
\* job's timeout flag is set while the evaluator runs, the evaluator makes
\* at most 256 further throws or list iterations before it returns.
Claim_C20_TimeoutBound == roll.since <= RollCounterModulus

\* C21: Dice::evaluate calls timeout_f on entry, before any throw, and then
\* at least once in every 256 throws of that dice; when a call gives true,
\* evaluate returns Err(Timeout) and throws no more.
Thm_C21_DicePolls ==
    /\ roll.unpolled <= RollCounterModulus
    /\ roll.sawTrue => roll.pc = "done" /\ roll.result = "Timeout" /\ roll.unpolled = 0
    /\ roll.pc = "run" /\ roll.throw > 0 => roll.entered

\* The flag was found set by the call made when roll_counter wrapped, after
\* 255 throws of the dice.
Wit_C21_TimeoutAtWrap ==
    /\ roll.pc = "done" /\ roll.result = "Timeout" /\ roll.sawTrue
    /\ roll.throw = RollCounterModulus - 1

(* ========================= claims on SpecExec ========================= *)
\* C22: in every call of roll the seed is received before the job is
\* submitted to the pool; the job's flag is false when the worker starts to
\* evaluate, and it is set only after the worker has sent its start time and
\* never before start time + job timeout, however long the job has waited
\* for a worker.
Thm_C22_RollTiming ==
    \A c \in Calls :
        /\ calls[c].job # "none" => calls[c].seed /\ calls[c].submitted # NoTime
        /\ calls[c].start # NoTime => ~calls[c].flagAtStart /\ calls[c].start >= calls[c].submitted
        /\ calls[c].flag => calls[c].start # NoTime /\ now >= calls[c].start + JobTimeout

\* A job that waited a whole timeout for a free worker is evaluated with its
\* flag still false.
Wit_C22_WaitedForWorker ==
    \E c \in Calls :
        /\ calls[c].job = "run"
        /\ calls[c].start >= calls[c].submitted + JobTimeout
        /\ ~calls[c].flag

\* C23 (as stated): when the caller of roll goes away at one of its awaits
\* no component fails: the provider goes on answering, and no later call of
\* roll fails.
Claim_C23_CancellationIgnored ==
    /\ rngProvider.pc # "panicked"
    /\ \A c \in Calls : calls[c].pc # "panicked"

\* C24 (as stated): after the initial delay of one period the ticker sends
\* one Reseed on every tick of the period, until stop is signalled: when
\* it waits for the next tick, it has sent one for every tick so far (the
\* tick at the end of the delay may or may not count).
Claim_C24_ReseedCadence ==
    (~finished.set /\ rngProvider.pc = "run" /\ TickerWaits /\ now >= Period)
        => ticker.sent \in {(now \div Period) - 1, now \div Period}

\* C25: once stop is signalled the ticker sends no Reseed later than the
\* next tick and by then has dropped its sender; it ends only when the
\* provider has stopped, and is then free to end at once.
Thm_C25_TickerShutdown ==
    /\ finished.set /\ ticker.lastSent > finished.at
          => ticker.lastSent <= NextTickAfter(finished.at)
    /\ finished.set /\ now > NextTickAfter(finished.at) => ~TickerHoldsSender
    /\ ticker.pc = "done" => rngProvider.pc = "stopped"
    /\ ticker.pc = "join" /\ rngProvider.pc = "stopped" => ENABLED TickerJoin

\* The ticker has ended after a stop signalled while it was in its loop,
\* with a Reseed sent before.
Wit_C25_StoppedInLoop ==
    /\ ticker.pc = "done"
    /\ ticker.sent >= 1
    /\ finished.at >= Period

(* ========================= claims on SpecArith ======================== *)
ArithDone(kind) == arith.pc = "done" /\ arith.in.kind = kind

\* The exact result of a op b, division truncated toward zero.
Exact(a, op, b) ==
    CASE op = "Add" -> a + b
      [] op = "Sub" -> a - b
      [] op = "Mul" -> a * b
      [] op = "Div" -> TruncDiv(a, b)

\* C26 (as stated): Calculation gives Err(DivideByZero) exactly when the
\* operator is Div and the right value is 0, Err(Overflow) exactly when the
\* exact result is outside i64 (i64::MIN / -1 included), and the exact
\* result otherwise.
Claim_C26_CheckedOperators ==
    ArithDone("calc") =>
        LET a == arith.in.a
            op == arith.in.op
            b == arith.in.b
        IN IF op = "Div" /\ b = 0 THEN arith.result.err = "DivideByZero"
           ELSE IF ~InI64(Exact(a, op, b)) THEN arith.result.err = "Overflow"
           ELSE arith.result.err = "none" /\ arith.result.v = Exact(a, op, b)

\* C27 (as stated): the total of a DiceThrow is the exact sum of the
\* retained values when that fits an i64 and the evaluation gives
\* Err(Overflow) when it does not; never a wrapped total, never an abort.
Claim_C27_DiceTotal ==
    ArithDone("dice") =>
        \/ arith.result.err = "Overflow"
        \/ /\ arith.result.err = "none"
           /\ arith.result.v = Sum(arith.result.kept)
           /\ InI64(Sum(arith.result.kept))

\* The range of one roll of a dice.
InRange(dice, v) ==
    CASE dice.type = "Number" -> 1 <= v /\ v <= dice.faces
      [] dice.type = "Fudge" -> v \in {0 - 1, 0, 1}
      [] dice.type = "Multiply" -> 1 <= v /\ v <= dice.faces * dice.faces

\* C30: a successful evaluation of a dice with t throws reports t rolls,
\* each in the range of its dice type, in the order thrown, whatever the
\* filter and the selector; Overflow comes only from a product of a
\* Multiply dice that does not fit.
Thm_C30_EvaluatorBounds ==
    ArithDone("dice") =>
        /\ arith.result.err = "none" =>
            /\ Len(arith.result.rolls) = arith.in.dice.throws
            /\ \A k \in 1..Len(arith.result.rolls) : InRange(arith.in.dice, arith.result.rolls[k])
            /\ arith.result.rolls = arith.rolls
        /\ arith.result.err = "Overflow" =>
            arith.in.dice.type = "Multiply" /\ ~InI64(arith.in.dice.faces * arith.in.dice.faces)

\* Two throws came out in descending order and the selector kept one of
\* them: the list reported is still the one thrown.
Wit_C30_SelectedUnsorted ==
    /\ ArithDone("dice")
    /\ arith.result.err = "none"
    /\ arith.in.selector.s = "Lower"
    /\ Len(arith.rolls) = 2 /\ arith.rolls[1] > arith.rolls[2]
    /\ arith.result.kept = <<arith.rolls[2]>>

Filtered == ArithDone("dice") /\ arith.result.err \in {"none", "panic"}

\* The predicate of a filter as the specification words it.
Retained(filter, v) ==
    CASE filter.f = "Bigger" -> v > filter.n
      [] filter.f = "BiggerEq" -> v > filter.n
      [] filter.f = "Smaller" -> v < filter.n
      [] filter.f = "SmallerEq" -> v <= filter.n
      [] filter.f = "NotEq" -> v # filter.n

\* C31: the values a filter retains are exactly the rolled values, in roll
\* order, with v > target for Bigger and for BiggerEq (strict), v < target
\* for Smaller, v <= target for SmallerEq and v # target for NotEq.
Thm_C31_FilterSemantics ==
    (Filtered /\ arith.in.filter.f # "none") =>
        arith.filtered = SelectSeq(arith.rolls, LAMBDA v : Retained(arith.in.filter, v))

\* A BiggerEq filter dropped a roll equal to its target and a smaller one.
Wit_C31_TargetDropped ==
    /\ Filtered
    /\ arith.in.filter.f = "BiggerEq"
    /\ \E i, j \in 1..Len(arith.rolls) :
            arith.rolls[i] = arith.in.filter.n /\ arith.rolls[j] < arith.in.filter.n
    /\ arith.filtered = <<>>

Count(l, v) == Cardinality({i \in 1..Len(l) : l[i] = v})
ValuesOf(l) == {l[i] : i \in 1..Len(l)}

\* kept holds k of the values of l, each as often as l at most, and no value
\* left out is on the far side of a value kept.
Extreme(kept, l, k, higher) ==
    /\ Len(kept) = k
    /\ \A v \in ValuesOf(kept) : Count(kept, v) <= Count(l, v)
    /\ \A v \in ValuesOf(kept), w \in ValuesOf(l) :
            Count(kept, w) < Count(l, w) => IF higher THEN w <= v ELSE v <= w

\* C32: when more than k dice survive the filter the selector retains the
\* k largest (Higher) or the k smallest (Lower) of the survivors, counted
\* with multiplicity; when k or fewer survive, the retained values and the
\* total are those of the dice without selector for the same draws.
Thm_C32_SelectorSemantics ==
    (Filtered /\ arith.in.selector.s # "none") =>
        IF Len(arith.filtered) > arith.in.selector.n
        THEN Extreme(arith.result.kept, arith.filtered, arith.in.selector.n,
                     arith.in.selector.s = "Higher")
        ELSE arith.result \in DiceThrowResults(<<arith.filtered, arith.rolls>>)

\* Of three dice thrown high, low, high, the two highest were retained.
Wit_C32_TwoOfThree ==
    /\ Filtered
    /\ arith.in.selector = [s |-> "Higher", n |-> 2]
    /\ Len(arith.filtered) = 3
    /\ arith.filtered[1] > arith.filtered[2] /\ arith.filtered[3] > arith.filtered[2]
    /\ arith.result.kept = <<arith.filtered[1], arith.filtered[3]>>

(* ========================= claims on SpecDraws ======================== *)
\* The leaves of a term from left to right, each by its path.
RECURSIVE Leaves(_, _)
Leaves(t, path) ==
    CASE t.k = "Calculation" -> Leaves(t.l, path \o <<"l">>) \o Leaves(t.r, path \o <<"r">>)
      [] t.k = "SubTerm" -> Leaves(t.t, path \o <<"s">>)
      [] OTHER -> <<path>>

\* The rolls of the leaves evaluated in pass i, in the order of the history.
RECURSIVE RollsOfPass(_, _)
RollsOfPass(trace, i) ==
    IF trace = <<>> THEN <<>>
    ELSE (IF Head(trace).iter = i THEN Head(trace).rolls ELSE <<>>) \o RollsOfPass(Tail(trace), i)

Evaluated == run.pc = "done"

\* C33: a Calculation evaluates its left child completely before its right
\* child and nothing after a child that failed, and reports the rolls of the
\* left child followed by those of the right; List(n, t) returns n results
\* in the order of evaluation, and the first failing evaluation of t ends
\* the expression with that error and with nothing evaluated after it.  So
\* the leaves are evaluated from left to right, pass after pass, up to the
\* first one that fails (or aborts, in a build that checks the sum of a
\* DiceThrow).
Thm_C33_ReductionOrder ==
    Evaluated =>
        LET trace == run.st.trace
            leaves == Leaves(run.expr.term, <<>>)
            n == Len(leaves)
            count == IF run.expr.list THEN run.expr.count ELSE 1
        IN /\ \A k \in 1..Len(trace) :
                  /\ trace[k].iter = ((k - 1) \div n) + 1
                  /\ trace[k].path = leaves[((k - 1) % n) + 1]
                  /\ k < Len(trace) => trace[k].err = "none"
           /\ run.outcome.err = "none" =>
                  /\ Len(trace) = count * n
                  /\ Len(run.outcome.results) = count
                  /\ \A i \in 1..count : run.outcome.results[i].rolls = RollsOfPass(trace, i)
           /\ run.outcome.err # "none" =>
                  /\ run.outcome.results = <<>>
                  /\ trace[Len(trace)].iter <= count
                  /\ trace[Len(trace)].err # "none" => run.outcome.err = trace[Len(trace)].err
                  /\ trace[Len(trace)].err = "none" =>
                        run.outcome.err \in {"Overflow", "DivideByZero"} /\ Len(trace) % n = 0

\* A list of two sums gave its first result, and in the second pass the left
\* dice ended with Timeout: the right dice of that pass was not evaluated.
Wit_C33_SecondPassFails ==
    /\ Evaluated
    /\ run.expr.list /\ run.expr.count = 2
    /\ run.outcome.err = "Timeout"
    /\ Len(run.results) = 1 /\ Len(run.results[1].rolls) = 3
    /\ Len(run.st.trace) = 3
    /\ run.st.trace[3].path = <<"l">>

Again == run.pc = "done" /\ run.first # NoOutcome

OperationOf(char) == ParseOperator(<<Tok(char)>>).v

\* l op r of two results, the first error winning.
Combine(l, op, r) ==
    IF l.err # "none" THEN l ELSE IF r.err # "none" THEN r ELSE Calculation(l.v, op, r.v)

\* vals[1] ops[1] vals[2] ... read from the left.
RECURSIVE LeftAssociative(_, _)
LeftAssociative(vals, ops) ==
    IF ops = <<>> THEN vals[1]
    ELSE LET n == Len(ops)
         IN Combine(LeftAssociative(SubSeq(vals, 1, n), SubSeq(ops, 1, n - 1)),
                    OperationOf(ops[n]), vals[n + 1])

\* The written operator sequence with * and / left-associative and binding
\* tighter than + and -, and + and - right-associative.
RECURSIVE AsWritten(_, _)
AsWritten(vals, ops) ==
    LET adds == {i \in 1..Len(ops) : ops[i] \in {"+", "-"}}
    IN IF adds = {} THEN LeftAssociative(vals, ops)
       ELSE LET i == CHOOSE i \in adds : \A j \in adds : i <= j
            IN Combine(LeftAssociative(SubSeq(vals, 1, i), SubSeq(ops, 1, i - 1)),
                       OperationOf(ops[i]),
                       AsWritten(SubSeq(vals, i + 1, Len(vals)), SubSeq(ops, i + 1, Len(ops))))

AtomAsWritten(a) ==
    IF a.k = "num" THEN Ok(a.n)
    ELSE AsWritten([i \in 1..Len(a.nums) |-> Ok(a.nums[i])], a.ops)

WrittenValue(w) == AsWritten([i \in 1..Len(w.atoms) |-> AtomAsWritten(w.atoms[i])], w.ops)

NoDice(w) == \A i \in 1..Len(w.atoms) : w.atoms[i].k # "dice"

\* C28 (as stated): for every term the parser accepts, the rearranged tree
\* evaluates to the value of the written operator sequence read with * and /
\* left-associative and binding tighter than + and -, and + and -
\* right-associative, for chains of any length and for parenthesised
\* sub-terms in either operand position.
Claim_C28_Precedence ==
    (parser.evaluated /\ NoDice(parser.src)) => parser.value = WrittenValue(parser.src)

Reparsed == parser.pc = "parsed" /\ parser.reparsed

\* C29 (as stated): for every value that parse_expression and parse_labeled
\* can produce, parsing the text rendered from it consumes the whole text
\* and yields the value again.
Claim_C29_RoundTrip ==
    Reparsed =>
        /\ parser.againExpression = POk(parser.first.v.e, <<>>)
        /\ parser.again = POk(parser.first.v, <<>>)

\* C29 (amended): for every expression e that parse_expression produces,
\* alone or inside the value of parse_labeled, parse_expression of the text
\* rendered from e consumes the whole text and yields e again; the text
\* rendered from a value of parse_labeled is the text of its expression, so
\* parse_labeled of it yields Unlabeled(e), whatever the label was.
Thm_C29_RoundTrip ==
    Reparsed =>
        /\ parser.againExpression = POk(parser.first.v.e, <<>>)
        /\ parser.rendered = RenderExpression(parser.first.v.e)
        /\ parser.again = POk(Unlabeled(parser.first.v.e), <<>>)

\* A labelled list of dice written with shortcuts, or a product that the
\* parser moved under a subtraction, was rendered to a text other than the
\* one written and parsed again.
Wit_C29_RenderedDiffers ==
    /\ Reparsed
    /\ parser.rendered # parser.text
    /\ parser.again.ok
    /\ \/ parser.first.v.labeled /\ parser.first.v.e.list
       \/ /\ parser.first.v.e.term.k = "Calculation"
          /\ parser.first.v.e.term.op = "Sub"
          /\ parser.first.v.e.term.l.k = "Calculation"

\* C40: rearange_term leaves the sequence of leaves, operators and
\* parentheses of a term as it was: the tree parse_labeled returns is
\* rearange_term of the tree parse_term built, and both are rendered to the
\* same text.
Thm_C40_RearangeKeepsText ==
    parser.pc = "parsed" =>
        /\ parser.tree.ok
        /\ parser.first.v.e.term = RearangeTerm(parser.tree.v)
        /\ RenderTerm(parser.first.v.e.term) = RenderTerm(parser.tree.v)

\* "a * b + c" and longer: rearange_term has moved the product under the
\* operator that followed it, and the text is the one of the tree as parsed.
Wit_C40_Regrouped ==
    /\ parser.pc = "parsed"
    /\ parser.tree.ok
    /\ parser.tree.v.k = "Calculation" /\ parser.tree.v.op = "Mul"
    /\ parser.first.v.e.term.k = "Calculation" /\ parser.first.v.e.term.op = "Add"
    /\ parser.first.v.e.term.l = CalculationTerm(parser.tree.v.l, "Mul", parser.tree.v.r.l)
    /\ RenderTerm(parser.first.v.e.term) = RenderTerm(parser.tree.v)

(* ====================== claims on SpecShutdown ======================== *)
Cached == {id \in Ids : InCache(cacheOrder, id)}

\* C11 (as stated): once every StorageHandle is dropped the actor does not
\* stop before it has answered every op of its channel and every op queued
\* behind a load; when run has returned no cached entry has a dirty flag
\* left (it was written back); and the db_worker leaves its loop only on the
\* closed queue, having executed every closure submitted to it.
Claim_C11_Shutdown ==
    /\ [](phase = "done" =>
            /\ inbox = <<>>
            /\ \A id \in Ids : pending[id] = <<>>
            /\ \A id \in Cached : DirtyFields(cacheInfo[id]) = {})
    /\ [](workerDone => (QueueClosed /\ dbQueue = <<>>))
    /\ [][closed =>
            /\ actorAlive => actorAlive'
            /\ workerAlive => workerAlive'
            /\ Len(dbQueue') >= Len(dbQueue) - 1]_vars

============================================================================
